---- MODULE Spec2Model ----
(***************************************************************************)
(* A model of scintilla-termbox: the Scintilla platform layer that draws   *)
(* on a termbox cell grid (PlatTermbox.cxx, PlatTermbox.h) and the         *)
(* ScintillaTermbox widget with its C API (ScintillaTermbox.cxx).          *)
(*                                                                         *)
(* ScintillaTermbox.cxx carries an older in-file copy of the platform      *)
(* classes.  The copies agree statement for statement on everything        *)
(* modelled here except grapheme_width and the text loop of                *)
(* ListBoxImpl::Select; the model follows PlatTermbox.cxx.                 *)
(*                                                                         *)
(* Strings are sequences of bytes (0..255).  Colours are records [r,g,b].  *)
(* The program is single threaded: the embedding application polls one     *)
(* event, makes one call and comes back (semester.c:74).  pc = "loop" is   *)
(* the application between calls; an operation runs as one step to         *)
(* pc = "called", leaving in op the call and its arguments, in ret its     *)
(* return value and in cells the tb_change_cell calls it issued; Poll      *)
(* brings the application back to the loop.                                *)
(***************************************************************************)
EXTENDS Integers, Sequences, FiniteSets, TLC

\* ------------------------------------------------------------ bounds
\* Largest terminal / window width and height the callers ask for.
MaxW == 3
MaxH == 2
\* Longest text, in code points, handed to the text operations.
MaxLen == 3
\* Most items a list holds and most rows a list shows.
MaxItems == 3
MaxRows == 3
\* Largest scroll range and page the Editor reports.
MaxScroll == 3

\* ------------------------------------------------------------ C arithmetic
Min(a, b) == IF a < b THEN a ELSE b
Max(a, b) == IF a > b THEN a ELSE b
Abs(a) == IF a < 0 THEN -a ELSE a
\* C integer division and float-to-int conversion truncate toward zero.
CDiv(a, b) ==
  IF (a >= 0) = (b > 0) THEN Abs(a) \div Abs(b) ELSE -(Abs(a) \div Abs(b))

\* ------------------------------------------------------------ TermboxWin
TermboxWin(left_, top_, right_, bottom_) ==
  [left |-> left_, top |-> top_, right |-> right_, bottom |-> bottom_]
Width(w) == w.right - w.left + 1
Height(w) == w.bottom - w.top + 1
MoveNoShift(w, newx, newy) == [w EXCEPT !.left = newx, !.top = newy]
Move(w, newx, newy) ==
  [left |-> newx, top |-> newy,
   right |-> w.right + (newx - w.left), bottom |-> w.bottom + (newy - w.top)]

\* ------------------------------------------------------------ geometry
\* An XYPOSITION is a float; the model counts it in half cells, so 2 * n is
\* the whole cell n and an odd value lies between two cells (the layout engine
\* centres whitespace dots on x + 0.5, PlatTermbox.cxx:222).
Pos(n) == 2 * n
\* static_cast<int>, and the implicit conversion of "int x = rc.left".
ToInt(v) == CDiv(v, 2)
PRectangle(left_, top_, right_, bottom_) ==
  [left |-> left_, top |-> top_, right |-> right_, bottom |-> bottom_]

\* ------------------------------------------------------------ colours
ColourRGBA(r_, g_, b_) == [r |-> r_, g |-> g_, b |-> b_]
to_rgb(c) == c.r * 65536 + c.g * 256 + c.b
\* The cell a tb_change_cell(x, y, ch, fg, bg) call sets.
Cell(x_, y_, ch_, fg_, bg_) == [x |-> x_, y |-> y_, ch |-> ch_, fg |-> fg_, bg |-> bg_]

\* ------------------------------------------------------------ UTF-8
\* The byte at 1-based position i; past the end a C string reads its NUL.
ByteAt(s, i) == IF i >= 1 /\ i <= Len(s) THEN s[i] ELSE 0
\* UTF8IsTrailByte (Scintilla UniConversion.h): a 10xxxxxx byte.
UTF8IsTrailByte(ch) == ch >= 128 /\ ch < 192
\* utf8_char_length (termbox): the sequence length a lead byte announces.
utf8_char_length(c) ==
  IF c < 192 THEN 1 ELSE IF c < 224 THEN 2 ELSE IF c < 240 THEN 3
  ELSE IF c < 248 THEN 4 ELSE IF c < 252 THEN 5 ELSE IF c < 254 THEN 6 ELSE 1
\* utf8_char_to_unicode (termbox) on the bytes of s from position i: the code
\* point and the number of bytes read, or TB_EOF (-1) on a NUL byte.
RECURSIVE utf8_accumulate(_, _, _, _)
utf8_accumulate(s, i, k, result) ==
  IF k = 0 THEN result
  ELSE utf8_accumulate(s, i + 1, k - 1, result * 64 + (ByteAt(s, i) % 64))
utf8_char_to_unicode(s, i) ==
  IF ByteAt(s, i) = 0 THEN [uni |-> 0, len |-> -1]
  ELSE LET len == utf8_char_length(ByteAt(s, i))
           mask == CASE len = 1 -> 128 [] len = 2 -> 32 [] len = 3 -> 16
                     [] len = 4 -> 8 [] len = 5 -> 4 [] OTHER -> 2
       IN [uni |-> utf8_accumulate(s, i + 1, len - 1, ByteAt(s, i) % mask),
           len |-> len]
\* mbtowc in a UTF-8 locale (semester.c:20): 0 on NUL, -1 on a byte sequence
\* that is no well-formed encoding, else the length and the wide character.
mbtowc(s, i) ==
  LET b == ByteAt(s, i)
      n == IF b < 128 THEN 1 ELSE IF b >= 194 /\ b < 224 THEN 2
           ELSE IF b >= 224 /\ b < 240 THEN 3 ELSE IF b >= 240 /\ b < 245 THEN 4
           ELSE -1
      d == utf8_char_to_unicode(s, i)
      least == CASE n = 2 -> 128 [] n = 3 -> 2048 [] n = 4 -> 65536 [] OTHER -> 0
  IN IF b = 0 THEN [n |-> 0, wch |-> 0]
     ELSE IF n < 1 THEN [n |-> -1, wch |-> 0]
     ELSE IF \E k \in 1..(n - 1) : ~UTF8IsTrailByte(ByteAt(s, i + k))
       THEN [n |-> -1, wch |-> 0]
     ELSE IF d.uni < least \/ d.uni > 1114111 \/ (d.uni >= 55296 /\ d.uni <= 57343)
       THEN [n |-> -1, wch |-> 0]
     ELSE [n |-> n, wch |-> d.uni]
\* wcwidth: -1 for control characters, 0 for NUL and combining marks, 2 for
\* East Asian wide characters, 1 otherwise.
wcwidth(wch) ==
  IF wch = 0 THEN 0
  ELSE IF wch < 32 \/ (wch >= 127 /\ wch < 160) THEN -1
  ELSE IF wch >= 768 /\ wch <= 879 THEN 0
  ELSE IF \/ (wch >= 4352 /\ wch <= 4447) \/ (wch >= 11904 /\ wch <= 42191)
          \/ (wch >= 44032 /\ wch <= 55203) \/ (wch >= 63744 /\ wch <= 64255)
          \/ (wch >= 65072 /\ wch <= 65135) \/ (wch >= 65280 /\ wch <= 65376)
          \/ (wch >= 65504 /\ wch <= 65510) THEN 2
  ELSE 1
\* grapheme_width(s + i - 1): the columns of the character starting at byte i.
grapheme_width(s, i) ==
  LET r == mbtowc(s, i)
  IN IF r.n < 1 THEN 1
     ELSE LET width == wcwidth(r.wch) IN IF width >= 0 THEN width ELSE 1
\* ScintillaTermbox::toutf8: the UTF-8 byte sequence of a code point.
toutf8(code) ==
  LET len == IF code < 128 THEN 1 ELSE IF code < 2048 THEN 2
             ELSE IF code < 65536 THEN 3 ELSE IF code < 2097152 THEN 4
             ELSE IF code < 67108864 THEN 5 ELSE 6
      top == code \div (64 ^ (len - 1))
      lead == CASE len = 1 -> code % 128 [] len = 2 -> 192 + (top % 32)
                [] len = 3 -> 224 + (top % 16) [] len = 4 -> 240 + (top % 8)
                [] len = 5 -> 248 + (top % 4) [] OTHER -> 252 + (top % 2)
  IN [b \in 1..len |->
        IF b = 1 THEN lead ELSE 128 + ((code \div (64 ^ (len - b))) % 64)]
\* A text given as code points, as the bytes the widget receives.
RECURSIVE Encode(_)
Encode(cps) == IF cps = <<>> THEN <<>> ELSE toutf8(Head(cps)) \o Encode(Tail(cps))
\* The columns of one code point.
CpWidth(cp) == grapheme_width(toutf8(cp), 1)
RECURSIVE SumWidths(_)
SumWidths(cps) == IF cps = <<>> THEN 0 ELSE CpWidth(Head(cps)) + SumWidths(Tail(cps))
\* All sequences over S of length at most n.
RECURSIVE SeqsUpTo(_, _)
SeqsUpTo(S, n) ==
  IF n = 0 THEN {<<>>}
  ELSE LET shorter == SeqsUpTo(S, n - 1)
       IN shorter \cup {Append(q, e) : q \in shorter, e \in S}

\* ------------------------------------------------------------ text measuring
\* SurfaceImpl::WidthText: the loop over the bytes of text.
RECURSIVE WidthTextLoop(_, _, _)
WidthTextLoop(text, i, width) ==
  IF i >= Len(text) THEN width
  ELSE WidthTextLoop(text, i + 1,
         IF ~UTF8IsTrailByte(text[i + 1]) THEN width + grapheme_width(text, i + 1)
         ELSE width)
WidthTextAllBytes(text) == Len(text)
WidthText(text) == WidthTextLoop(text, 0, 0)
\* SurfaceImpl::MeasureWidths: positions[i] for every byte i of text.
RECURSIVE MeasureWidthsLoop(_, _, _, _)
MeasureWidthsLoop(text, i, j, positions) ==
  IF i >= Len(text) THEN positions
  ELSE LET j2 == IF ~UTF8IsTrailByte(text[i + 1]) THEN j + grapheme_width(text, i + 1)
                 ELSE j
       IN MeasureWidthsLoop(text, i + 1, j2, Append(positions, j2))
MeasureWidths(text) == MeasureWidthsLoop(text, 0, 0, <<>>)

\* ------------------------------------------------------------ Surface
\* SurfaceImpl::FillRectangle on a surface bound to win: the right edge of
\* the columns it fills.
FillRightUnclamped(win, rc) == ToInt(rc.right)
FillRight(win, rc) == Min(ToInt(rc.right), Width(win))
\* The cells SurfaceImpl::FillRectangle(rc, fill) writes on a window surface.
FillRectangle(win, rc, colour) ==
  LET right == FillRight(win, rc)
      bottom == Min(ToInt(rc.bottom), Height(win))   \* computed, never read
  IN {Cell(win.left + x, win.top + y, 32, 16777215, to_rgb(colour)) :
        x \in ToInt(rc.left)..(right - 1),
        y \in {yy \in ToInt(rc.top)..ToInt(rc.bottom) : Pos(yy) < rc.bottom}}

\* The two scanning loops of DrawTextNoClip (the left clip and the right
\* window edge): the offset of the first byte at which the columns counted
\* so far exceed limit, or the length of text.
RECURSIVE ScanLoop(_, _, _, _)
ScanLoop(text, offset, chars, limit) ==
  IF offset >= Len(text) THEN offset
  ELSE LET c == IF ~UTF8IsTrailByte(text[offset + 1])
                THEN chars + grapheme_width(text, offset + 1) ELSE chars
       IN IF c > limit THEN offset ELSE ScanLoop(text, offset + 1, c, limit)
\* The drawing loop of DrawTextNoClip: one cell per code point of the first
\* `bytes` bytes of str.
RECURSIVE DrawLoop(_, _, _, _, _, _, _, _, _)
DrawLoop(str, len, x, y, bytes, left, top, fg, bg) ==
  LET width == grapheme_width(str, len + 1)
      d == utf8_char_to_unicode(str, len + 1)
      len2 == len + d.len
  IN {Cell(left + x, top + y, d.uni, fg, bg)} \cup
     (IF len2 >= bytes THEN {}
      ELSE DrawLoop(str, len2, x + width, y, bytes, left, top, fg, bg))
\* Where DrawTextNoClip starts drawing: rc.left, moved to the clip's left edge.
TextStartUnclipped(rc, clip_) == rc.left
TextStart(rc, clip_) == IF rc.left < clip_.left THEN clip_.left ELSE rc.left
\* The columns left of the right window boundary.
RightClipCharsOffByOne(win, rcleft) == ToInt(Pos(Width(win)) - rcleft) + 1
RightClipChars(win, rcleft) == ToInt(Pos(Width(win)) - rcleft)
\* The cells SurfaceImpl::DrawTextNoClip writes.  The font is a normal one
\* (attrs = 0).
DrawTextNoClip(win, clip_, rc, text, fore, back) ==
  LET offset == IF rc.left < clip_.left
                THEN ScanLoop(text, 0, 0, ToInt(clip_.left - rc.left)) ELSE 0
      text1 == SubSeq(text, offset + 1, Len(text))
      rcleft == TextStart(rc, clip_)
      clip_chars == RightClipChars(win, rcleft)
      bytes == ScanLoop(text1, 0, 0, clip_chars)
  IN IF bytes = 0 THEN {}
     ELSE DrawLoop(text1, 0, ToInt(rcleft), ToInt(rc.top), bytes, win.left, win.top,
                   to_rgb(fore), to_rgb(back))
\* SurfaceImpl::DrawTextClipped: text blobs come with an empty rectangle.
DrawTextClipped(win, clip_, rc, text, fore, back) ==
  LET rc2 == IF rc.left >= rc.right
             THEN PRectangle(rc.left - Pos(2), rc.top - Pos(1),
                             rc.right - Pos(2), rc.bottom - Pos(1))
             ELSE rc
  IN DrawTextNoClip(win, clip_, rc2, text, fore, back)

\* ------------------------------------------------------------ state
VARIABLES
  pc,              \* "loop": the application between calls; "called": in op
  op,              \* the call made last, with its arguments
  ret,             \* what that call returned
  cells,           \* the tb_change_cell calls that call issued
  wMain,           \* ScintillaTermbox::wMain, the widget's TermboxWin
  sci,             \* ScintillaTermbox::width and height, the size last painted
  clip,            \* SurfaceImpl::clip of the widget's surface
  pattern_colour,  \* SurfaceImpl::pattern_colour of the pixmap surface
  lb,              \* ListBoxImpl: height, width, list, types, selection
  lbWin,           \* ListBoxImpl's wid: <<>> (nullptr) or <<its TermboxWin>>
  appended,        \* what Append was given since the last Clear: text, type glyph
  ed               \* ScintillaTermbox's scrollbar and mouse fields, and the
                   \* fields of the Editor it derives from that its methods use

vars == <<pc, op, ret, cells, wMain, sci, clip, pattern_colour, lb, lbWin, appended, ed>>
surfaceVars == <<clip, pattern_colour>>
listVars == <<lb, lbWin, appended>>

IMAGE_MAX == 31
NoOp == [name |-> "none"]
Black == ColourRGBA(0, 0, 0)
Colours == {Black, ColourRGBA(124, 175, 194)}

\* ------------------------------------------------------------ construction
\* Values the unset int dragOffset may hold.
DragOffsets == {0, 1}
\* Values the unset autoCompleteLastClickTime may hold, and event times.
ClickTimes == {0, 1000}
\* ScintillaTermbox::ScintillaTermbox on a terminal of tb_width() by
\* tb_height() cells, and ListBoxImpl::ListBoxImpl.  The constructor sets
\* neither capturedMouse, the dragging flags, dragOffset nor
\* autoCompleteLastClickTime: they hold
\* whatever the allocation held.
Init ==
  /\ pc = "loop" /\ op = NoOp /\ ret = 0 /\ cells = {}
  /\ \E tbw \in 1..MaxW, tbh \in 1..MaxH :
       /\ wMain = TermboxWin(0, 0, tbw - 1, tbh - 1)
       /\ sci = [width |-> tbw, height |-> tbh]
  /\ clip = PRectangle(0, 0, 0, 0)
  /\ pattern_colour = Black
  /\ lb = [height |-> 5, width |-> 10, list |-> <<>>,
           types |-> [t \in 0..IMAGE_MAX |-> <<32>>], selection |-> 0]
  /\ lbWin = <<>>
  /\ appended = <<>>
  /\ \E captured \in BOOLEAN, draggingV \in BOOLEAN, draggingH \in BOOLEAN,
        offset \in DragOffsets, lastClick \in ClickTimes :
       ed = [scrollBarHeight |-> 1, scrollBarWidth |-> 1,
             capturedMouse |-> captured,
             draggingVScrollBar |-> draggingV, draggingHScrollBar |-> draggingH,
             dragOffset |-> offset,
             verticalScrollBarVisible |-> TRUE, horizontalScrollBarVisible |-> FALSE,
             autoCompleteLastClickTime |-> lastClick,
             topLine |-> 0, acActive |-> FALSE, errorStatus |-> "Ok"]
\* Construction as the painting and list operations see it: they read none of
\* the fields the constructor leaves unset.
InitPaint ==
  /\ Init
  /\ ~ed.capturedMouse /\ ~ed.draggingVScrollBar /\ ~ed.draggingHScrollBar
  /\ ed.dragOffset = 0 /\ ed.autoCompleteLastClickTime = 0

\* Construction on the largest terminal, for the specifications that leave
\* the terminal's size alone or set it themselves.
InitList == InitPaint /\ sci = [width |-> MaxW, height |-> MaxH]

\* ------------------------------------------------------------ the application
\* The application's loop takes the next event (semester.c:74).
Poll ==
  /\ pc = "called"
  /\ pc' = "loop" /\ op' = NoOp /\ ret' = 0 /\ cells' = {}
  /\ UNCHANGED <<ed, wMain, sci, surfaceVars, listVars>>

\* ------------------------------------------------------------ inputs
\* Window sizes and positions the application asks for.
ResizeWidths == 0..MaxW
ResizeHeights == 0..MaxH
MoveTargets == {<<0, 0>>, <<1, 1>>}
\* Rectangles of the layout engine: x in half cells, y in whole cells, from
\* one cell before the window to one cell beyond the largest window.
RectXs == (-2)..(2 * MaxW + 2)
RectYs == {Pos(n) : n \in (-1)..(MaxH + 1)}
Rects == {PRectangle(l, t, r, b) : l \in RectXs, t \in RectYs, r \in RectXs, b \in RectYs}

\* ------------------------------------------------------------ ListBoxImpl
\* UTF8DrawBytes (Scintilla UniConversion) as ListBoxImpl calls it: the bytes
\* of the first character of s, 1 when s does not start a well-formed one.
UTF8DrawBytes(s) ==
  LET r == mbtowc(s, 1) IN IF r.n < 1 THEN 1 ELSE r.n
\* strncmp(a, b, n) == 0 for an a of n bytes.
StrNEqual(a, b, n) == \A k \in 1..n : ByteAt(a, k) = ByteAt(b, k)
\* The item past its type character (Find, GetValue).
ItemWhole(item) == item
ItemPastOneByte(item) == SubSeq(item, 2, Len(item))
ItemValue(item) == SubSeq(item, Min(UTF8DrawBytes(item), Len(item)) + 1, Len(item))

\* ListBoxImpl::SetVisibleRows on the list and its window (<<>>: no window).
SetVisibleRows(l, w, rows) ==
  [l |-> [l EXCEPT !.height = rows],
   w |-> IF w = <<>> THEN w ELSE <<[w[1] EXCEPT !.bottom = w[1].top + rows - 1]>>]
\* ListBoxImpl::Clear.
ClearNothing(l) == l
Clear(l) == [l EXCEPT !.list = <<>>, !.width = 0]
\* ListBoxImpl::RegisterImage.
RegisterImage(l, type, xpm_data) ==
  IF type < 0 \/ type > IMAGE_MAX THEN l
  ELSE [l EXCEPT !.types[type] = SubSeq(xpm_data, 1, Min(UTF8DrawBytes(xpm_data), Len(xpm_data)))]
\* The width Append grows the list to for a text s.
AppendWidth(l, s) == LET len == Len(s) IN IF l.width < len + 2 THEN len + 2 ELSE l.width
\* ListBoxImpl::Append on the list and its window (Append itself is the
\* push_back of Sequences).
AppendItem(l, w, s, type) ==
  LET item == IF type >= 0 /\ type <= IMAGE_MAX THEN l.types[type] \o s ELSE <<32>> \o s
      width == AppendWidth(l, s)
  IN [l |-> [l EXCEPT !.list = Append(@, item), !.width = width],
      w |-> [w EXCEPT !.right = w.left + width - 1, !.bottom = w.top + l.height - 1]]
\* The first index Select draws.
SelectStartNoUpper(n, height, len) == Max(0, n - CDiv(height, 2))
SelectStart(n, height, len) ==
  LET s0 == n - CDiv(height, 2)
      s1 == IF s0 + height > len THEN len - height ELSE s0
  IN IF s1 < 0 THEN 0 ELSE s1
\* The text loop of Select over one item: the <<column, character>> pairs it
\* draws and the column it ends on.  junk is the value of the uninitialised
\* uni when utf8_char_to_unicode meets the terminating NUL and stores nothing.
RECURSIVE SelectTextLoop(_, _, _, _)
SelectTextLoop(str, text_offset, x, junk) ==
  LET text_width == grapheme_width(str, text_offset + 1)
      d == utf8_char_to_unicode(str, text_offset + 1)
      uni == IF d.len = -1 THEN junk ELSE d.uni
      offset == text_offset + d.len
  IN IF offset >= Len(str) THEN [drawn |-> {<<x, uni>>}, x |-> x + text_width]
     ELSE LET rest == SelectTextLoop(str, offset, x + text_width, junk)
          IN [drawn |-> {<<x, uni>>} \cup rest.drawn, x |-> rest.x]
SelectFore == 3684408
SelectBack == 8171458
ListFore == 14211288
ListBack == 3684408
\* The cells Select(n) writes for the list index i (0-based), first index s.
SelectRow(l, w, i, s, n, junk) ==
  LET fore == IF i = n THEN SelectFore ELSE ListFore
      back == IF i = n THEN SelectBack ELSE ListBack
      y == w.top + i - s
  IN IF i < Len(l.list)
     THEN LET str == l.list[i + 1]
              t == IF str = <<>> THEN [drawn |-> {}, x |-> 1]
                   ELSE SelectTextLoop(str, 1, 1, junk)
          IN {Cell(w.left, y, 32, fore, back)}
             \cup {Cell(w.left + d[1], y, d[2], fore, back) : d \in t.drawn}
             \cup {Cell(w.left + j, y, 32, fore, back) : j \in t.x..(l.width - 1)}
     ELSE {Cell(w.left + j, y, 32, fore, back) : j \in 0..(l.width - 1)}
\* The cells ListBoxImpl::Select(n) writes.
Select(l, w, n, junk) ==
  LET s == SelectStart(n, l.height, Len(l.list))
  IN UNION {SelectRow(l, w, i, s, n, junk) : i \in s..(s + l.height - 1)}
\* ListBoxImpl::Find, searching from the 0-based index i.
RECURSIVE FindFrom(_, _, _)
FindFrom(l, prefix, i) ==
  IF i >= Len(l.list) THEN -1
  ELSE IF StrNEqual(prefix, ItemValue(l.list[i + 1]), Len(prefix)) THEN i
  ELSE FindFrom(l, prefix, i + 1)
Find(l, prefix) == FindFrom(l, prefix, 0)
\* ListBoxImpl::GetValue.
GetValue(l, n) == ItemValue(l.list[n + 1])

\* atoi on the bytes of s from position i: white space, a sign, then digits.
RECURSIVE AtoiDigits(_, _, _)
AtoiDigits(s, i, n) ==
  IF ByteAt(s, i) >= 48 /\ ByteAt(s, i) <= 57
  THEN AtoiDigits(s, i + 1, 10 * n + (ByteAt(s, i) - 48)) ELSE n
RECURSIVE atoi(_, _)
atoi(s, i) ==
  LET b == ByteAt(s, i)
  IN IF b = 32 \/ (b >= 9 /\ b <= 13) THEN atoi(s, i + 1)
     ELSE IF b = 45 THEN -AtoiDigits(s, i + 1, 0)
     ELSE IF b = 43 THEN AtoiDigits(s, i + 1, 0)
     ELSE AtoiDigits(s, i, 0)
\* The loop of ListBoxImpl::SetList at the 0-based index i of text: word is the
\* start of the current item, type the index of its last typesep (-1 for
\* nullptr), calls the Append calls made so far.
RECURSIVE SetListLoop(_, _, _, _, _, _, _, _, _)
SetListLoop(l, w, text, i, word, type, separator, typesep, calls) ==
  IF i > Len(text) THEN [l |-> l, w |-> w, calls |-> calls]
  ELSE IF i = Len(text) \/ text[i + 1] = separator
  THEN LET s == SubSeq(text, word + 1, IF type >= 0 THEN type ELSE i)
           t == IF type >= 0 THEN atoi(SubSeq(text, 1, i), type + 2) ELSE -1
           r == AppendItem(l, w, s, t)
       IN SetListLoop(r.l, r.w, text, i + 1, i + 1, -1, separator, typesep,
                      Append(calls, [s |-> s, type |-> t]))
  ELSE IF text[i + 1] = typesep
  THEN SetListLoop(l, w, text, i + 1, word, i, separator, typesep, calls)
  ELSE SetListLoop(l, w, text, i + 1, word, type, separator, typesep, calls)
\* ListBoxImpl::SetList on the list and its window.
SetList(l, w, listText, separator, typesep) ==
  SetListLoop(Clear(l), w, listText, 0, 0, -1, separator, typesep, <<>>)

\* Values the uninitialised uni of Select may hold.
Junk == {0, 63}

\* ------------------------------------------------------------ the widget's window
\* ScintillaTermbox::Refresh: the size the widget is painted at.
Refresh(win) == [width |-> Width(win), height |-> Height(win)]

\* The end of Refresh: an active autocompletion list is drawn again.
RefreshList ==
  \E junk \in Junk :
    cells' = IF ed.acActive /\ lbWin # <<>> THEN Select(lb, lbWin[1], lb.selection, junk)
             ELSE {}

\* scintilla_resize(sci, width, height): ScintillaTermbox::Resize, which
\* clears the terminal buffer and repaints.
scintilla_resize ==
  /\ pc = "loop"
  /\ \E width \in ResizeWidths, height \in ResizeHeights :
       /\ wMain' = [wMain EXCEPT !.right = wMain.left + width - 1,
                                 !.bottom = wMain.top + height - 1]
       /\ op' = [name |-> "scintilla_resize", width |-> width, height |-> height]
  /\ sci' = Refresh(wMain')
  /\ pc' = "called" /\ ret' = 0 /\ RefreshList
  /\ UNCHANGED <<ed, surfaceVars, listVars>>

\* scintilla_move(sci, new_x, new_y): ScintillaTermbox::Move.
scintilla_move(targets) ==
  /\ pc = "loop"
  /\ \E to \in targets :
       /\ wMain' = Move(wMain, to[1], to[2])
       /\ op' = [name |-> "scintilla_move", x |-> to[1], y |-> to[2]]
  /\ sci' = Refresh(wMain')
  /\ pc' = "called" /\ ret' = 0 /\ RefreshList
  /\ UNCHANGED <<ed, surfaceVars, listVars>>

\* ------------------------------------------------------------ Surface calls
\* FillRectangle(rc, fill) on the widget's surface (pattern false, win wMain).
SurfaceFillRectangle ==
  /\ pc = "loop"
  /\ \E rc \in Rects, colour \in Colours :
       /\ cells' = FillRectangle(wMain, rc, colour)
       /\ op' = [name |-> "FillRectangle", rc |-> rc, colour |-> colour]
  /\ pc' = "called" /\ ret' = 0
  /\ UNCHANGED <<ed, wMain, sci, surfaceVars, listVars>>

\* FillRectangle(rc, fill) on a surface AllocatePixMap made (pattern true):
\* it keeps the colour and draws nothing.
PixmapFillRectangle ==
  /\ pc = "loop"
  /\ \E colour \in Colours :
       /\ pattern_colour' = colour
       /\ op' = [name |-> "PixmapFillRectangle",
                 rc |-> PRectangle(0, 0, Pos(1), Pos(1)), colour |-> colour]
  /\ cells' = {}
  /\ pc' = "called" /\ ret' = 0
  /\ UNCHANGED <<ed, wMain, sci, clip, listVars>>

\* FillRectangle(rc, surfacePattern) on the widget's surface, with the pixmap
\* surface as the pattern.
FillRectanglePattern ==
  /\ pc = "loop"
  /\ \E rc \in Rects :
       /\ cells' = FillRectangle(wMain, rc, pattern_colour)
       /\ op' = [name |-> "FillRectangle", rc |-> rc, colour |-> pattern_colour]
  /\ pc' = "called" /\ ret' = 0
  /\ UNCHANGED <<ed, wMain, sci, surfaceVars, listVars>>

\* ------------------------------------------------------------ the widget and its surface
Next ==
  \/ Poll
  \/ scintilla_resize
  \/ scintilla_move(MoveTargets)
  \/ SurfaceFillRectangle
  \/ PixmapFillRectangle
  \/ FillRectanglePattern

Spec == InitPaint /\ [][Next]_vars

\* ------------------------------------------------------------ text calls
\* Texts of the layout engine: 'a' (one byte, one column), U+0301 combining
\* acute (two bytes, no column), U+3042 hiragana a (three bytes, two columns).
TextCps == {97, 769, 12354}
Texts == SeqsUpTo(TextCps, MaxLen)
TextLefts == (-1)..MaxW
ClipLefts == 0..MaxW
TextFore == ColourRGBA(216, 216, 216)
TextBack == ColourRGBA(24, 24, 24)
\* The rectangle of a text run starting at cell left on row 0.
TextRect(left_, cps, blob) ==
  PRectangle(Pos(left_), 0,
             IF blob THEN Pos(left_) ELSE Pos(left_ + WidthText(Encode(cps))), Pos(1))

\* SurfaceImpl::SetClip, with the clip's left edge on a whole cell.
SetClip ==
  /\ pc = "loop"
  /\ \E l \in ClipLefts :
       LET rc == PRectangle(Pos(l), 0, Pos(Width(wMain)), Pos(Height(wMain)))
       IN /\ clip' = rc
          /\ op' = [name |-> "SetClip", rc |-> rc]
  /\ pc' = "called" /\ ret' = 0 /\ cells' = {}
  /\ UNCHANGED <<ed, wMain, sci, pattern_colour, listVars>>

\* SurfaceImpl::PopClip.
PopClip ==
  /\ pc = "loop"
  /\ clip' = PRectangle(0, 0, 0, 0)
  /\ op' = [name |-> "PopClip"]
  /\ pc' = "called" /\ ret' = 0 /\ cells' = {}
  /\ UNCHANGED <<ed, wMain, sci, pattern_colour, listVars>>

\* DrawTextNoClip(rc, font, ybase, text, fore, back) on the widget's surface.
SurfaceDrawTextNoClip ==
  /\ pc = "loop"
  /\ \E cps \in Texts, l \in TextLefts :
       LET rc == TextRect(l, cps, FALSE)
       IN /\ cells' = DrawTextNoClip(wMain, clip, rc, Encode(cps), TextFore, TextBack)
          /\ op' = [name |-> "DrawTextNoClip", rc |-> rc, cps |-> cps]
  /\ pc' = "called" /\ ret' = 0
  /\ UNCHANGED <<ed, wMain, sci, surfaceVars, listVars>>

\* DrawTextClipped(rc, font, ybase, text, fore, back) on the widget's surface.
SurfaceDrawTextClipped ==
  /\ pc = "loop"
  /\ \E cps \in Texts, l \in TextLefts, blob \in BOOLEAN :
       LET rc == TextRect(l, cps, blob)
       IN /\ cells' = DrawTextClipped(wMain, clip, rc, Encode(cps), TextFore, TextBack)
          /\ op' = [name |-> "DrawTextClipped", rc |-> rc, cps |-> cps]
  /\ pc' = "called" /\ ret' = 0
  /\ UNCHANGED <<ed, wMain, sci, surfaceVars, listVars>>

\* WidthText(font, text).
SurfaceWidthText ==
  /\ pc = "loop"
  /\ \E cps \in Texts :
       /\ ret' = WidthText(Encode(cps))
       /\ op' = [name |-> "WidthText", cps |-> cps]
  /\ pc' = "called" /\ cells' = {}
  /\ UNCHANGED <<ed, wMain, sci, surfaceVars, listVars>>

\* MeasureWidths(font, text, positions): ret is the positions array.
SurfaceMeasureWidths ==
  /\ pc = "loop"
  /\ \E cps \in Texts :
       /\ ret' = MeasureWidths(Encode(cps))
       /\ op' = [name |-> "MeasureWidths", cps |-> cps]
  /\ pc' = "called" /\ cells' = {}
  /\ UNCHANGED <<ed, wMain, sci, surfaceVars, listVars>>

\* The widget's surface drawing and measuring text.
NextText ==
  \/ Poll
  \/ scintilla_move(MoveTargets)
  \/ SetClip
  \/ PopClip
  \/ SurfaceDrawTextNoClip
  \/ SurfaceDrawTextClipped
  \/ SurfaceWidthText
  \/ SurfaceMeasureWidths

SpecText == InitPaint /\ [][NextText]_vars

\* ------------------------------------------------------------ transparent text
\* The terminal, as tb_width() and tb_height() report it: the size the
\* widget's window was constructed with.
tb_width == MaxW
tb_height == MaxH
\* tb_cell_buffer(): the bg of each cell, row after row; the buffers taken
\* are blank but for at most one coloured cell.
Devices ==
  {[i \in 0..(tb_width * tb_height - 1) |->
      IF i = k THEN to_rgb(ColourRGBA(124, 175, 194)) ELSE to_rgb(Black)] :
     k \in (-1)..(tb_width * tb_height - 1)}
\* What a read beyond the cell buffer may yield.
BeyondBuffer == {0, 16777215}
\* The index DrawTextTransparent reads the cell buffer at.
SampleIndex(win, rc) ==
  (win.top + ToInt(rc.top)) * tb_width + (win.left + ToInt(rc.left))
\* The colour DrawTextTransparent makes of a cell's bg.
SampledColour(tb_color) ==
  ColourRGBA(tb_color \div 65536, (tb_color % 65536) \div 256, tb_color % 256)
\* The cells SurfaceImpl::DrawTextTransparent writes, tb_color being the bg
\* it read.
DrawTextTransparent(win, clip_, rc, text, fore, tb_color) ==
  IF ToInt(rc.top) > win.bottom THEN {}
  ELSE DrawTextNoClip(win, clip_, rc, text, fore, SampledColour(tb_color))

TransparentTexts == {<<97>>, <<97, 12354>>}
TransparentLefts == (-1)..(MaxW - 1)
TransparentTops == 0..MaxH
\* DrawTextTransparent(rc, font, ybase, text, fore) on the widget's surface,
\* over a cell buffer holding device.  op.read is the set of buffer indices
\* the call read.
SurfaceDrawTextTransparent ==
  /\ pc = "loop"
  /\ \E cps \in TransparentTexts, l \in TransparentLefts, t \in TransparentTops,
        device \in Devices, beyond \in BeyondBuffer :
       LET rc == PRectangle(Pos(l), Pos(t), Pos(l + WidthText(Encode(cps))), Pos(t + 1))
           index == SampleIndex(wMain, rc)
           tb_color == IF index \in DOMAIN device THEN device[index] ELSE beyond
       IN /\ cells' = DrawTextTransparent(wMain, clip, rc, Encode(cps), TextFore, tb_color)
          /\ op' = [name |-> "DrawTextTransparent", rc |-> rc, cps |-> cps,
                    device |-> device,
                    read |-> IF ToInt(rc.top) > wMain.bottom THEN {} ELSE {index}]
  /\ pc' = "called" /\ ret' = 0
  /\ UNCHANGED <<ed, wMain, sci, surfaceVars, listVars>>

\* The widget's surface drawing text over what the terminal shows.
NextTransparent ==
  \/ Poll
  \/ scintilla_resize
  \/ SetClip
  \/ PopClip
  \/ SurfaceDrawTextTransparent

SpecTransparent == InitList /\ [][NextTransparent]_vars

\* ------------------------------------------------------------ line markers
\* The MarkerSymbol values of the layout engine (Scintilla's ScintillaTypes.h)
\* that SurfaceImpl::DrawLineMarker names.
MarkerSymbol ==
  [Circle |-> 0, RoundRect |-> 1, Arrow |-> 2, SmallRect |-> 3, ShortArrow |-> 4,
   Empty |-> 5, ArrowDown |-> 6, Minus |-> 7, Plus |-> 8, VLine |-> 9,
   LCorner |-> 10, TCorner |-> 11, BoxPlus |-> 12, BoxPlusConnected |-> 13,
   BoxMinus |-> 14, BoxMinusConnected |-> 15, LCornerCurve |-> 16,
   TCornerCurve |-> 17, CirclePlus |-> 18, CirclePlusConnected |-> 19,
   CircleMinus |-> 20, CircleMinusConnected |-> 21, DotDotDot |-> 23,
   Arrows |-> 24, FullRect |-> 26, LeftRect |-> 27, Bookmark |-> 31,
   Bar |-> 33, Character |-> 10000]
\* The cases of DrawLineMarker's switch that write one cell: marker type and
\* code point.  The copy of SurfaceImpl in PlatTermbox.cxx has the case Bar,
\* the copy in ScintillaTermbox.cxx has not; plat tells which one is built.
LineMarkerGlyphs(plat) ==
  {<<MarkerSymbol.Circle, 9679>>, <<MarkerSymbol.SmallRect, 9632>>,
   <<MarkerSymbol.RoundRect, 9632>>, <<MarkerSymbol.Arrow, 9654>>,
   <<MarkerSymbol.ShortArrow, 8594>>, <<MarkerSymbol.Empty, 32>>,
   <<MarkerSymbol.ArrowDown, 9660>>, <<MarkerSymbol.Minus, 9472>>,
   <<MarkerSymbol.BoxMinus, 8863>>, <<MarkerSymbol.BoxMinusConnected, 8863>>,
   <<MarkerSymbol.CircleMinus, 8853>>, <<MarkerSymbol.CircleMinusConnected, 8853>>,
   <<MarkerSymbol.Plus, 9532>>, <<MarkerSymbol.BoxPlus, 8862>>,
   <<MarkerSymbol.BoxPlusConnected, 8862>>, <<MarkerSymbol.CirclePlus, 8854>>,
   <<MarkerSymbol.CirclePlusConnected, 8854>>, <<MarkerSymbol.VLine, 9474>>,
   <<MarkerSymbol.LCorner, 9492>>, <<MarkerSymbol.LCornerCurve, 9492>>,
   <<MarkerSymbol.TCorner, 9500>>, <<MarkerSymbol.TCornerCurve, 9500>>,
   <<MarkerSymbol.DotDotDot, 8943>>, <<MarkerSymbol.Arrows, 8921>>,
   <<MarkerSymbol.LeftRect, 9614>>, <<MarkerSymbol.Bookmark, 8721>>} \cup
  (IF plat THEN {<<MarkerSymbol.Bar, 9616>>} ELSE {})
\* tb_change_cell(left + rcWhole.left, top + rcWhole.top, glyph, fore, back):
\* the sums are floating point, converted to int at the call.
MarkerCellWindowRelative(win, rc, glyph, marker) ==
  Cell(ToInt(rc.left), ToInt(rc.top), glyph, to_rgb(marker.fore), to_rgb(marker.back))
MarkerCell(win, rc, glyph, marker) ==
  Cell(ToInt(Pos(win.left) + rc.left), ToInt(Pos(win.top) + rc.top), glyph,
       to_rgb(marker.fore), to_rgb(marker.back))
\* The cells SurfaceImpl::DrawLineMarker writes.
DrawLineMarker(win, clip_, rcWhole, marker, plat) ==
  LET case == {g \in LineMarkerGlyphs(plat) : g[1] = marker.markType}
  IN IF case # {}
     THEN {MarkerCell(win, rcWhole, g[2], marker) : g \in case}
     ELSE IF marker.markType = MarkerSymbol.FullRect
     THEN FillRectangle(win, rcWhole, marker.back)
     ELSE IF marker.markType >= MarkerSymbol.Character
     THEN DrawTextClipped(win, clip_, rcWhole,
                          <<(marker.markType - MarkerSymbol.Character) % 256>>,
                          marker.fore, marker.back)
     ELSE {}

\* Marker types the layout engine holds: every value around the named ones,
\* one below the character range, and the characters 'A' and 'a'.
MarkTypes ==
  ((-1)..34) \cup {MarkerSymbol.Character - 1, MarkerSymbol.Character + 65,
                   MarkerSymbol.Character + 97}
MarkerFore == ColourRGBA(192, 192, 192)
\* Marker rectangles: left edge in half cells, one or two cells wide.
MarkerRects ==
  {PRectangle(l, Pos(t), l + Pos(w), Pos(t + 1)) :
     l \in 0..Pos(MaxW - 1), t \in 0..(MaxH - 1), w \in 1..2}
\* The customDraw callback of a marker: DrawLineMarker(surface, rcWhole,
\* fontForCharacter, tFold, data) on the widget's surface.
SurfaceDrawLineMarker ==
  /\ pc = "loop"
  /\ \E rc \in MarkerRects, markType \in MarkTypes, back \in Colours, plat \in BOOLEAN :
       LET marker == [markType |-> markType, fore |-> MarkerFore, back |-> back]
       IN /\ cells' = DrawLineMarker(wMain, clip, rc, marker, plat)
          /\ op' = [name |-> "DrawLineMarker", rc |-> rc, marker |-> marker,
                    plat |-> plat]
  /\ pc' = "called" /\ ret' = 0
  /\ UNCHANGED <<ed, wMain, sci, surfaceVars, listVars>>

\* The widget's surface drawing the markers of a margin.
NextMarker ==
  \/ Poll
  \/ scintilla_move(MoveTargets)
  \/ SurfaceDrawLineMarker

SpecMarker == InitPaint /\ [][NextMarker]_vars

\* ------------------------------------------------------------ list calls
\* The type character U+25A0 of the RegisterImage usage note.
Square == <<226, 150, 160>>
\* The type character "*" of the same note.
Star == <<42>>
Glyphs == {Star, Square}
\* <<text as code points, type>> pairs handed to Append: "a" untyped, "ab" of
\* type 1, hiragana a untyped, the empty text of type 1, "a" of a type past
\* IMAGE_MAX.
ListItems ==
  {<<<<97>>, -1>>, <<<<97, 98>>, 1>>, <<<<12354>>, -1>>, <<<<>>, 1>>, <<<<97>>, IMAGE_MAX + 1>>}
RowItems == {<<<<97>>, -1>>, <<<<>>, 1>>}
Prefixes == {<<>>, <<97>>, <<97, 98>>, <<98>>, <<227>>}

ListBoxCreate ==
  /\ pc = "loop"
  /\ lbWin' = <<TermboxWin(0, 0, 1, 1)>>
  /\ op' = [name |-> "Create"]
  /\ pc' = "called" /\ ret' = 0 /\ cells' = {}
  /\ UNCHANGED <<ed, wMain, sci, surfaceVars, lb, appended>>

ListBoxSetVisibleRows ==
  /\ pc = "loop"
  /\ \E rows \in 0..MaxRows :
       LET r == SetVisibleRows(lb, lbWin, rows)
       IN /\ lb' = r.l /\ lbWin' = r.w
          /\ op' = [name |-> "SetVisibleRows", rows |-> rows]
  /\ pc' = "called" /\ ret' = 0 /\ cells' = {}
  /\ UNCHANGED <<ed, wMain, sci, surfaceVars, appended>>

ListBoxClear ==
  /\ pc = "loop"
  /\ lb' = Clear(lb)
  /\ appended' = <<>>
  /\ op' = [name |-> "Clear"]
  /\ pc' = "called" /\ ret' = 0 /\ cells' = {}
  /\ UNCHANGED <<ed, wMain, sci, surfaceVars, lbWin>>

ListBoxRegisterImage ==
  /\ pc = "loop"
  /\ \E type \in {-1, 1, IMAGE_MAX + 1}, xpm_data \in Glyphs :
       /\ lb' = RegisterImage(lb, type, xpm_data)
       /\ op' = [name |-> "RegisterImage", type |-> type, xpm_data |-> xpm_data]
  /\ pc' = "called" /\ ret' = 0 /\ cells' = {}
  /\ UNCHANGED <<ed, wMain, sci, surfaceVars, lbWin, appended>>

\* Append(s, type) with <<s, type>> from items; the call dereferences wid, so
\* it follows a Create.  op.width0 is the width field the call found.
ListBoxAppend(items) ==
  /\ pc = "loop"
  /\ lbWin # <<>>
  /\ Len(lb.list) < MaxItems
  /\ \E it \in items :
       LET r == AppendItem(lb, lbWin[1], Encode(it[1]), it[2])
       IN /\ lb' = r.l /\ lbWin' = <<r.w>>
          /\ appended' = Append(appended, Encode(it[1]))
          /\ op' = [name |-> "Append", cps |-> it[1], type |-> it[2], width0 |-> lb.width]
  /\ pc' = "called" /\ ret' = 0 /\ cells' = {}
  /\ UNCHANGED <<ed, wMain, sci, surfaceVars>>

ListBoxSelect ==
  /\ pc = "loop"
  /\ lbWin # <<>>
  /\ \E n \in (-1)..(Len(lb.list) - 1), junk \in Junk :
       /\ cells' = Select(lb, lbWin[1], n, junk)
       /\ lb' = [lb EXCEPT !.selection = n]
       /\ op' = [name |-> "Select", n |-> n]
  /\ pc' = "called" /\ ret' = 0
  /\ UNCHANGED <<ed, wMain, sci, surfaceVars, lbWin, appended>>

ListBoxFind ==
  /\ pc = "loop"
  /\ \E prefix \in Prefixes :
       /\ ret' = Find(lb, prefix)
       /\ op' = [name |-> "Find", prefix |-> prefix]
  /\ pc' = "called" /\ cells' = {}
  /\ UNCHANGED <<ed, wMain, sci, surfaceVars, listVars>>

\* GetValue(n) for an index of the list (list.at(n) throws past the end).
ListBoxGetValue ==
  /\ pc = "loop"
  /\ \E n \in 0..(Len(lb.list) - 1) :
       /\ ret' = GetValue(lb, n)
       /\ op' = [name |-> "GetValue", n |-> n]
  /\ pc' = "called" /\ cells' = {}
  /\ UNCHANGED <<ed, wMain, sci, surfaceVars, listVars>>

\* Serialised lists over "A", "B", "1", "2", "," and ":": "A:1,B:2", "", "A",
\* "B:2,A", "A,", "A:1:2", "A:".
SetListTexts ==
  {<<65, 58, 49, 44, 66, 58, 50>>, <<>>, <<65>>, <<66, 58, 50, 44, 65>>,
   <<65, 44>>, <<65, 58, 49, 58, 50>>, <<65, 58>>}

\* SetList(listText, ',', ':'); it calls Append, so it follows a Create.
\* op.calls are the Append calls it made.
ListBoxSetList ==
  /\ pc = "loop"
  /\ lbWin # <<>>
  /\ \E listText \in SetListTexts :
       LET r == SetList(lb, lbWin[1], listText, 44, 58)
       IN /\ lb' = r.l /\ lbWin' = <<r.w>>
          /\ appended' = [k \in 1..Len(r.calls) |-> r.calls[k].s]
          /\ op' = [name |-> "SetList", listText |-> listText, separator |-> 44,
                    typesep |-> 58, calls |-> r.calls]
  /\ pc' = "called" /\ ret' = 0 /\ cells' = {}
  /\ UNCHANGED <<ed, wMain, sci, surfaceVars>>

\* The contents of an autocompletion list.
NextList ==
  \/ Poll
  \/ ListBoxCreate
  \/ ListBoxClear
  \/ ListBoxRegisterImage
  \/ ListBoxAppend(ListItems)
  \/ ListBoxFind
  \/ ListBoxGetValue

SpecList == InitList /\ [][NextList]_vars

\* The display of an autocompletion list.
NextSelect ==
  \/ Poll
  \/ ListBoxCreate
  \/ ListBoxSetVisibleRows
  \/ ListBoxAppend(RowItems)
  \/ ListBoxSelect

SpecSelect == InitList /\ [][NextSelect]_vars

\* An autocompletion list set from a serialised text and shown.
NextShow ==
  \/ Poll
  \/ ListBoxCreate
  \/ ListBoxRegisterImage
  \/ ListBoxSetList
  \/ ListBoxSelect

SpecShow == InitList /\ [][NextShow]_vars

\* ------------------------------------------------------------ ScintillaTermbox
\* roundf(static_cast<float>(a) / b * c) converted to int, for a, b, c >= 0.
\* With b = 0 the quotient is infinite or NaN and the conversion is undefined:
\* ub is the int the build produces.
RoundQuotient(a, b, c, ub) ==
  IF b = 0 THEN ub ELSE (2 * a * c + b) \div (2 * b)
\* std::clamp(v, lo, hi).  With hi < lo its precondition fails; the library
\* either compares v with lo first or takes min(max(v, lo), hi).
clamp(v, lo, hi, loFirst) ==
  IF loFirst THEN (IF v < lo THEN lo ELSE IF hi < v THEN hi ELSE v)
  ELSE Min(Max(v, lo), hi)
\* ScintillaTermbox::ModifyScrollBars; scrollWidth is the Editor's field.
ModifyScrollBars(e, win, nMax, nPage, scrollWidth, ub, loFirst) ==
  LET maxy == Height(win)
      maxx == Width(win)
      height == RoundQuotient(nPage, nMax, maxy, ub)
      width == RoundQuotient(maxx, scrollWidth, maxx, ub)
  IN [e EXCEPT !.scrollBarHeight = clamp(height, 1, maxy, loFirst),
               !.scrollBarWidth = clamp(width, 1, maxx, loFirst)]

\* static_cast<float>(a) / b * c converted to int, for a, b, c >= 0: the
\* truncated quotient (the float result is exact enough for it at the sizes
\* of a terminal).  With b = 0 the conversion is undefined and gives ub.
TruncQuotient(a, b, c, ub) == IF b = 0 THEN ub ELSE (a * c) \div b
\* The colours of the scrollbar's gutter and thumb.
GutterColour == 2631720
ThumbColour == 14211288
\* ScintillaTermbox::SetVerticalScrollPos: whether the bar is drawn, the thumb
\* position it stores in scrollBarVPos and the cells it writes, the thumb over
\* the gutter.
SetVerticalScrollPos(e, win, maxScrollPos, linesOnScreen, ub) ==
  IF ~e.verticalScrollBarVisible THEN [drawn |-> FALSE, vpos |-> 0, cells |-> {}]
  ELSE LET maxy == Height(win)
           maxx == Width(win)
           vpos == TruncQuotient(e.topLine, maxScrollPos + linesOnScreen - 1, maxy, ub)
           thumb == vpos..(vpos + e.scrollBarHeight - 1)
       IN [drawn |-> TRUE, vpos |-> vpos,
           cells |->
             {Cell(win.left + maxx - 1, win.top + i, 32, GutterColour, GutterColour) :
                i \in (0..(maxy - 1)) \ thumb}
             \cup {Cell(win.left + maxx - 1, win.top + i, 32, ThumbColour, ThumbColour) :
                     i \in thumb}]

\* The messages WndProc tells apart, and two of those it passes on.
DirectMessages == {"GetDirectFunction", "GetDirectPointer"}
UnsupportedMessages ==
  {"SetBufferedDraw", "SetWhitespaceSize", "SetPhasesDraw", "SetExtraAscent",
   "SetExtraDescent"}
PassedMessages == {"SetHScrollBar", "GetLength"}
\* What ScintillaBase::WndProc does with a passed message: it returns, or
\* throws std::bad_alloc, or throws something else.
Outcomes == {"returns", "bad_alloc", "exception"}
\* ScintillaTermbox::WndProc: the fields after the call and the value returned.
WndProcNoCatchAll(e, iMessage, wParam, outcome) ==
  IF iMessage \in PassedMessages /\ outcome = "bad_alloc"
  THEN [ed |-> [e EXCEPT !.errorStatus = "BadAlloc"], ret |-> 0]
  ELSE [ed |-> e, ret |-> 0]
WndProc(e, iMessage, wParam, outcome) ==
  IF iMessage = "GetDirectFunction" THEN [ed |-> e, ret |-> "scintilla_send_message"]
  ELSE IF iMessage = "GetDirectPointer" THEN [ed |-> e, ret |-> "this"]
  ELSE IF iMessage \in UnsupportedMessages THEN [ed |-> e, ret |-> 0]
  ELSE IF outcome = "bad_alloc" THEN [ed |-> [e EXCEPT !.errorStatus = "BadAlloc"], ret |-> 0]
  ELSE IF outcome = "exception" THEN [ed |-> [e EXCEPT !.errorStatus = "Failure"], ret |-> 0]
  ELSE IF iMessage = "SetHScrollBar"
  THEN [ed |-> [e EXCEPT !.horizontalScrollBarVisible = (wParam # 0)], ret |-> 0]
  ELSE [ed |-> e, ret |-> 0]

\* C's % on ints; a zero divisor is undefined and gives ub.
CMod(a, b, ub) == IF b = 0 THEN ub ELSE a - b * CDiv(a, b)
\* C's / on ints, likewise.
CQuot(a, b, ub) == IF b = 0 THEN ub ELSE CDiv(a, b)
SCM_PRESS == 1
SCM_DRAG == 2
SCM_RELEASE == 3
\* d < limit for the unsigned int d of a difference of two unsigned ints less
\* than 2^31 apart: a negative difference wraps to 2^32 + d, above any limit.
UnsignedLess(d, limit) == d >= 0 /\ d < limit
\* Platform::DoubleClickTime, in milliseconds.
DoubleClickTime == 500
\* Editor::LinesOnScreen and Editor::MaxScrollPos with one-row lines.
LinesOnScreen(win) == Height(win)
MaxScrollPos == MaxScroll
\* Editor::ScrollTo keeps the top line within [0, MaxScrollPos()].
ScrollTo(e, line) ==
  [e EXCEPT !.topLine = IF line < 0 THEN 0 ELSE IF line > MaxScrollPos THEN MaxScrollPos ELSE line]
\* What a handler hands back: the widget's fields, the list, the cells drawn,
\* the value returned and the calls made into the Editor and the list.
Handled(e, l, drawn, ret_, calls_) ==
  [ed |-> e, lb |-> l, cells |-> drawn, ret |-> ret_, calls |-> calls_]
\* The lines a wheel press scrolls by.
WheelLinesByHeight(win) == Max(CDiv(Height(win), 4), 1)
WheelLines(win) == Max(CDiv(win.bottom, 4), 1)

\* What MousePress does about an active autocompletion list: through when the
\* press goes on to the scrollbars and the text; else select = <<k>> when it
\* calls lb->Select(k), notify when it delivers a double click, clicked when it
\* stores the time in autoCompleteLastClickTime.
ListPressNoSelect(through_, select_, notify_, clicked_) ==
  [through |-> through_, select |-> <<>>, notify |-> notify_, clicked |-> clicked_]
ListPress(through_, select_, notify_, clicked_) ==
  [through |-> through_, select |-> select_, notify |-> notify_, clicked |-> clicked_]
\* The part of MousePress for an active autocompletion list.
\* env: vpos and hpos the thumb positions last drawn, grab whether the Editor
\* captures the mouse on button down, ub and junk the outcomes of undefined
\* operations.
MousePressList(e, l, w, parent, button, time, y, x, env) ==
  LET begy == w.top - parent.top
      begx == w.left - parent.left
      maxy == w.bottom - 1
      maxx == w.right - 1
      ry == y - begy
      rx == x - begx
      n == l.selection
      middle == CDiv(l.height, 2)
      ny == IF n < middle THEN n
            ELSE IF n >= Len(l.list) - middle THEN CMod(n - 1, l.height, env.ub)
            ELSE middle
      offset == ry - ny - 1
  IN IF ry > 0 /\ ry < maxy /\ rx > 0 /\ rx < maxx
     THEN IF button = 1
          THEN IF offset = 0
                  /\ UnsignedLess(time - e.autoCompleteLastClickTime, DoubleClickTime)
               THEN ListPress(FALSE, <<>>, TRUE, TRUE)
               ELSE ListPress(FALSE, <<n + offset>>, FALSE, TRUE)
          ELSE IF button = 4 /\ n > 0 THEN ListPress(FALSE, <<n - 1>>, FALSE, FALSE)
          ELSE IF button = 5 /\ n < Len(l.list) - 1 THEN ListPress(FALSE, <<n + 1>>, FALSE, FALSE)
          ELSE ListPress(FALSE, <<>>, FALSE, FALSE)
     ELSE IF ry = 0 \/ ry = maxy \/ rx = 0 \/ rx = maxx
     THEN ListPress(FALSE, <<>>, FALSE, FALSE)
     ELSE ListPress(TRUE, <<>>, FALSE, FALSE)

\* The rest of MousePress: scrollbars, text, wheel.
MousePressView(e, l, win, button, time, y, x, env, lines) ==
  IF button = 1
  THEN IF e.verticalScrollBarVisible /\ x = win.right
       THEN IF y < env.vpos
            THEN Handled(ScrollTo(e, e.topLine - LinesOnScreen(win)), l, {}, TRUE,
                         <<[call |-> "ScrollTo", line |-> e.topLine - LinesOnScreen(win)]>>)
            ELSE IF y >= env.vpos + e.scrollBarHeight
            THEN Handled(ScrollTo(e, e.topLine + LinesOnScreen(win)), l, {}, TRUE,
                         <<[call |-> "ScrollTo", line |-> e.topLine + LinesOnScreen(win)]>>)
            ELSE Handled([e EXCEPT !.draggingVScrollBar = TRUE, !.dragOffset = y - env.vpos],
                         l, {}, FALSE, <<>>)
       ELSE IF e.horizontalScrollBarVisible /\ y = win.bottom
       THEN IF x < env.hpos
            THEN Handled(e, l, {}, TRUE,
                         <<[call |-> "HorizontalScrollTo", by |-> -CDiv(win.right, 2)]>>)
            ELSE IF x >= env.hpos + e.scrollBarWidth
            THEN Handled(e, l, {}, TRUE,
                         <<[call |-> "HorizontalScrollTo", by |-> CDiv(win.right, 2)]>>)
            ELSE Handled([e EXCEPT !.draggingHScrollBar = TRUE, !.dragOffset = x - env.hpos],
                         l, {}, FALSE, <<>>)
       ELSE Handled([e EXCEPT !.capturedMouse = env.grab \/ @], l, {}, TRUE,
                    <<[call |-> "ButtonDown", x |-> x, y |-> y]>>)
  ELSE IF button = 4 \/ button = 5
  THEN LET by == IF button = 4 THEN -lines ELSE lines
       IN Handled(ScrollTo(e, e.topLine + by), l, {}, TRUE,
                  <<[call |-> "ScrollTo", line |-> e.topLine + by]>>)
  ELSE Handled(e, l, {}, FALSE, <<>>)

\* ScintillaTermbox::MousePress (no call tip is shown).
MousePress(e, l, lw, win, button, time, y, x, env) ==
  LET over == IF e.acActive /\ lw # <<>> /\ button \in {1, 4, 5}
              THEN MousePressList(e, l, lw[1], win, button, time, y, x, env)
              ELSE ListPress(TRUE, <<>>, FALSE, FALSE)
  IN IF over.through
     THEN MousePressView(e, l, win, button, time, y, x, env, WheelLines(win))
     ELSE Handled(IF over.clicked THEN [e EXCEPT !.autoCompleteLastClickTime = time] ELSE e,
                  IF over.select # <<>> THEN [l EXCEPT !.selection = over.select[1]] ELSE l,
                  IF over.select # <<>> THEN Select(l, lw[1], over.select[1], env.junk) ELSE {},
                  TRUE,
                  IF over.notify THEN <<[call |-> "ListNotify", event |-> "doubleClick"]>>
                  ELSE IF over.select # <<>> THEN <<[call |-> "Select", n |-> over.select[1]]>>
                  ELSE <<>>)

\* ScintillaTermbox::MouseMove.
MouseMove(e, l, win, y, x, env) ==
  IF ~e.draggingVScrollBar /\ ~e.draggingHScrollBar
  THEN Handled(e, l, {}, e.capturedMouse, <<[call |-> "ButtonMove", x |-> x, y |-> y]>>)
  ELSE IF e.draggingVScrollBar
  THEN LET maxy == win.bottom - e.scrollBarHeight
           pos == y - e.dragOffset
           line == CQuot(pos * MaxScrollPos, maxy, env.ub)
       IN IF pos >= 0 /\ pos <= maxy
          THEN Handled(ScrollTo(e, line), l, {}, TRUE, <<[call |-> "ScrollTo", line |-> line]>>)
          ELSE Handled(e, l, {}, TRUE, <<>>)
  ELSE LET maxx == win.right - e.scrollBarWidth
           pos == x - e.dragOffset
       IN IF pos >= 0 /\ pos <= maxx
          THEN Handled(e, l, {}, TRUE,
                       <<[call |-> "HorizontalScrollTo",
                          to |-> CQuot(pos * (env.scrollWidth - maxx - e.scrollBarWidth), maxx, env.ub)]>>)
          ELSE Handled(e, l, {}, TRUE, <<>>)

\* ScintillaTermbox::MouseRelease.  The Editor's button-up handler releases
\* the capture.
MouseReleaseKeepsDrag(e, l, time, y, x) ==
  IF e.capturedMouse
  THEN Handled([e EXCEPT !.capturedMouse = FALSE], l, {}, TRUE,
               <<[call |-> "ButtonUp", x |-> x, y |-> y]>>)
  ELSE Handled(e, l, {}, TRUE, <<>>)
MouseRelease(e, l, time, y, x) ==
  IF e.draggingVScrollBar \/ e.draggingHScrollBar
  THEN Handled([e EXCEPT !.draggingVScrollBar = FALSE, !.draggingHScrollBar = FALSE],
               l, {}, TRUE, <<>>)
  ELSE IF e.capturedMouse
  THEN Handled([e EXCEPT !.capturedMouse = FALSE], l, {}, TRUE,
               <<[call |-> "ButtonUp", x |-> x, y |-> y]>>)
  ELSE Handled(e, l, {}, TRUE, <<>>)

\* Whether scintilla_send_mouse drops the event at absolute (x, y).
OutsideWindow(w, x, y) ==
  LET begy == w.top
      begx == w.left
      maxy == w.bottom
      maxx == w.right
  IN x < begx \/ x > begx + maxx \/ y < begy \/ y > begy + maxy
\* scintilla_send_mouse: what the handler it dispatches to hands back, with the
\* dispatch itself first among the calls.
SendMouse(e, l, lw, w, event, time, button, y, x, env) ==
  IF OutsideWindow(w, x, y) /\ button # 4 /\ button # 5 /\ event # SCM_DRAG
  THEN Handled(e, l, {}, FALSE, <<>>)
  ELSE LET ry == y - w.top
           rx == x - w.left
           to(handler, r) ==
             [r EXCEPT !.calls = <<[call |-> handler, x |-> rx, y |-> ry]>> \o @]
       IN IF event = SCM_PRESS
          THEN to("MousePress", MousePress(e, l, lw, w, button, time, ry, rx, env))
          ELSE IF event = SCM_DRAG
          THEN to("MouseMove", MouseMove(e, l, w, ry, rx, env))
          ELSE IF event = SCM_RELEASE
          THEN to("MouseRelease", MouseRelease(e, l, time, ry, rx))
          ELSE Handled(e, l, {}, FALSE, <<>>)

\* ------------------------------------------------------------ widget calls
ScrollWidths == {0, 1, 2 * MaxW}
UBInts == {-2147483647 - 1, 0, 2147483647}

\* The Editor asks for the scrollbars to be sized (Editor::SetScrollBars, on a
\* change of size or of the document).
EditorModifyScrollBars ==
  /\ pc = "loop"
  /\ \E nMax \in 0..MaxScroll, nPage \in 0..MaxScroll, scrollWidth \in ScrollWidths,
        ub \in UBInts, loFirst \in BOOLEAN :
       /\ ed' = ModifyScrollBars(ed, wMain, nMax, nPage, scrollWidth, ub, loFirst)
       /\ op' = [name |-> "ModifyScrollBars", nMax |-> nMax, nPage |-> nPage,
                 scrollWidth |-> scrollWidth]
  /\ pc' = "called" /\ ret' = TRUE /\ cells' = {}
  /\ UNCHANGED <<wMain, sci, surfaceVars, listVars>>

\* scintilla_send_message(sci, iMessage, wParam, lParam).
scintilla_send_message ==
  /\ pc = "loop"
  /\ \E iMessage \in DirectMessages \cup UnsupportedMessages \cup PassedMessages,
        wParam \in {0, 1}, outcome \in Outcomes :
       LET r == WndProc(ed, iMessage, wParam, outcome)
       IN /\ iMessage \notin PassedMessages => outcome = "returns"
          /\ ed' = r.ed /\ ret' = r.ret
          /\ op' = [name |-> "WndProc", iMessage |-> iMessage, wParam |-> wParam,
                    outcome |-> outcome]
  /\ pc' = "called" /\ cells' = {}
  /\ UNCHANGED <<wMain, sci, surfaceVars, listVars>>

\* The widget under messages, scrollbar sizing and window changes.
NextEdit ==
  \/ Poll
  \/ scintilla_resize
  \/ scintilla_move(MoveTargets)
  \/ EditorModifyScrollBars
  \/ scintilla_send_message

SpecEdit == InitList /\ [][NextEdit]_vars

\* ------------------------------------------------------------ scrollbar calls
\* Editor::SetScrollBars: ModifyScrollBars(MaxScrollPos() + LinesOnScreen() - 1,
\* LinesOnScreen()), as after a change of size or of the document.
EditorSetScrollBars ==
  /\ pc = "loop"
  /\ \E scrollWidth \in ScrollWidths, ub \in UBInts, loFirst \in BOOLEAN :
       ed' = ModifyScrollBars(ed, wMain, MaxScrollPos + LinesOnScreen(wMain) - 1,
                              LinesOnScreen(wMain), scrollWidth, ub, loFirst)
  /\ op' = [name |-> "SetScrollBars"]
  /\ pc' = "called" /\ ret' = 0 /\ cells' = {}
  /\ UNCHANGED <<wMain, sci, surfaceVars, listVars>>

\* Editor::ScrollTo(line): the new top line, then SetVerticalScrollPos; ret
\* holds the thumb position stored in scrollBarVPos.
EditorScrollTo ==
  /\ pc = "loop"
  /\ \E line \in 0..MaxScrollPos, ub \in UBInts :
       LET r == SetVerticalScrollPos(ScrollTo(ed, line), wMain, MaxScrollPos,
                                     LinesOnScreen(wMain), ub)
       IN /\ ed' = ScrollTo(ed, line)
          /\ cells' = r.cells /\ ret' = r.vpos
          /\ op' = [name |-> "ScrollTo", line |-> line, drawn |-> r.drawn]
  /\ pc' = "called"
  /\ UNCHANGED <<wMain, sci, surfaceVars, listVars>>

\* The scrollbar of a widget that is resized and scrolled.
NextScroll ==
  \/ Poll
  \/ scintilla_resize
  \/ scintilla_move(MoveTargets)
  \/ EditorSetScrollBars
  \/ EditorScrollTo

SpecScroll == InitList /\ [][NextScroll]_vars

\* ------------------------------------------------------------ mouse calls
\* Where the application puts the widget before it sends mouse events.
EditTargets == {<<0, 0>>, <<1, 1>>, <<1, 8>>}
\* Events of the terminal: press, drag, release and one that is none of them;
\* left button and wheel; absolute cells in and around the window at each of
\* its positions.
MouseEvents == {0, SCM_PRESS, SCM_DRAG, SCM_RELEASE}
MouseButtons == {1, 4, 5}
MouseXs == {0} \cup ((MaxW - 1)..(MaxW + 1))
MouseYs == {0, 1, 3, 9}
\* What the handlers read besides the event: the thumb positions last drawn,
\* whether the Editor captures the mouse on a button down, the scroll width,
\* and the outcomes of undefined operations.
MouseEnvs ==
  [vpos : {0, 1}, hpos : {0}, grab : BOOLEAN, scrollWidth : {2 * MaxW},
   ub : {0, 2147483647}, junk : {0}]
MouseInputs ==
  [events |-> MouseEvents, buttons |-> MouseButtons, times |-> ClickTimes,
   ys |-> MouseYs, xs |-> MouseXs, envs |-> MouseEnvs]

\* scintilla_send_mouse(sci, event, time, button, modifiers, y, x); ret holds
\* the bool it returns as 1 or 0.
scintilla_send_mouse(in) ==
  /\ pc = "loop"
  /\ \E event \in in.events, button \in in.buttons, time \in in.times,
        y \in in.ys, x \in in.xs, env \in in.envs :
       LET r == SendMouse(ed, lb, lbWin, wMain, event, time, button, y, x, env)
       IN /\ ed' = r.ed /\ lb' = r.lb /\ cells' = r.cells /\ ret' = (IF r.ret THEN 1 ELSE 0)
          /\ op' = [name |-> "scintilla_send_mouse", event |-> event,
                    button |-> button, time |-> time, y |-> y, x |-> x,
                    win |-> wMain, before |-> ed, selection |-> lb.selection,
                    vpos |-> env.vpos,
                    calls |-> r.calls]
  /\ pc' = "called"
  /\ UNCHANGED <<wMain, sci, surfaceVars, lbWin, appended>>

\* Construction as the mouse handlers see it: the largest terminal, the
\* fields the constructor leaves unset holding anything.  No list is shown,
\* so autoCompleteLastClickTime is not read.
InitMouse ==
  /\ Init
  /\ sci = [width |-> MaxW, height |-> MaxH]
  /\ ed.autoCompleteLastClickTime = 0

\* The widget under mouse events and window moves.
NextMouse ==
  \/ Poll
  \/ scintilla_move(EditTargets)
  \/ scintilla_send_mouse(MouseInputs)

SpecMouse == InitMouse /\ [][NextMouse]_vars

\* The same widget when the allocation held zeroes: no drag is in progress
\* and the mouse is not captured until a press makes it so.
InitDrag ==
  /\ InitMouse
  /\ ~ed.capturedMouse /\ ~ed.draggingVScrollBar /\ ~ed.draggingHScrollBar
  /\ ed.dragOffset = 0

SpecDrag == InitDrag /\ [][NextMouse]_vars

\* ------------------------------------------------------------ window placement
\* The cell Window::SetPositionRelative(rc, relativeTo) moves the window to.
RelativePosition(rc, parent) ==
  LET begx == parent.left
      begy == parent.top
      x0 == ToInt(Pos(begx) + rc.left)
      x1 == IF x0 < begx THEN begx ELSE x0
      y0 == ToInt(Pos(begy) + rc.top)
      y1 == IF y0 < begy THEN begy ELSE y0
      sizex == ToInt(rc.right - rc.left)
      sizey == ToInt(rc.bottom - rc.top)
      screen_width == Width(parent)
      screen_height == Height(parent)
      x2 == IF sizex > screen_width THEN begx
            ELSE IF x1 + sizex > begx + screen_width THEN begx + screen_width - sizex
            ELSE x1
      y2 == IF y1 + sizey > begy + screen_height
            THEN begy + screen_height - sizey - (IF screen_height = 1 THEN 1 ELSE 0)
            ELSE y1
      y3 == IF y2 < 0 THEN begy ELSE y2
  IN [x |-> x2, y |-> y3]
SetPositionRelative(w, rc, parent) ==
  LET to == RelativePosition(rc, parent) IN Move(w, to.x, to.y)

\* Rectangles the Editor places the list at, relative to the main window:
\* from one cell left of it to beyond its right and bottom edges, between
\* cells too, empty up to the size of the largest window.
PlaceLefts == {-2, 0, 1, 2, 2 * MaxW}
PlaceTops == {0, 2, 2 * MaxH}
PlaceRects ==
  {PRectangle(l, t, l + Pos(w), t + Pos(h)) :
     l \in PlaceLefts, t \in PlaceTops, w \in 0..MaxW, h \in 0..MaxH}

\* ac.lb->SetPositionRelative(rc, &wMain) of the Editor's AutoCompleteStart.
WindowSetPositionRelative ==
  /\ pc = "loop"
  /\ lbWin # <<>>
  /\ \E rc \in PlaceRects :
       /\ lbWin' = <<SetPositionRelative(lbWin[1], rc, wMain)>>
       /\ op' = [name |-> "SetPositionRelative", rc |-> rc, parent |-> wMain]
  /\ pc' = "called" /\ ret' = 0 /\ cells' = {}
  /\ UNCHANGED <<ed, wMain, sci, surfaceVars, lb, appended>>

\* The list window placed on a main window of any size and position.
NextPlace ==
  \/ Poll
  \/ scintilla_resize
  \/ scintilla_move(MoveTargets)
  \/ ListBoxCreate
  \/ WindowSetPositionRelative

SpecPlace == InitList /\ [][NextPlace]_vars

\* ------------------------------------------------------------ the list overlay
\* The terminal of a widget that shows an autocompletion list.
OverlayW == 6
OverlayH == 6
\* The k-th entry of the list, two letters, and the text of the first n
\* entries as SetList receives it.
OverlayEntry(k) == <<96 + k, 96 + k>>
RECURSIVE OverlayText(_)
OverlayText(n) ==
  IF n = 0 THEN <<>>
  ELSE IF n = 1 THEN OverlayEntry(1)
  ELSE OverlayText(n - 1) \o <<44>> \o OverlayEntry(n)
\* Lengths of the list, its visible rows (SCI_AUTOCSETMAXHEIGHT; 5 unless
\* set), and the cells below the caret where the Editor places it.
OverlayLengths == {1, 4}
OverlayRows == {3, 5}
OverlaySpots == {<<0, 1>>, <<1, 1>>}

\* Construction on a terminal of OverlayW by OverlayH cells, the allocation
\* holding zeroes but for autoCompleteLastClickTime.
InitOverlay ==
  /\ pc = "loop" /\ op = NoOp /\ ret = 0 /\ cells = {}
  /\ wMain = TermboxWin(0, 0, OverlayW - 1, OverlayH - 1)
  /\ sci = [width |-> OverlayW, height |-> OverlayH]
  /\ clip = PRectangle(0, 0, 0, 0)
  /\ pattern_colour = Black
  /\ lb = [height |-> 5, width |-> 10, list |-> <<>>,
           types |-> [t \in 0..IMAGE_MAX |-> <<32>>], selection |-> 0]
  /\ lbWin = <<>>
  /\ appended = <<>>
  /\ \E lastClick \in ClickTimes :
       ed = [scrollBarHeight |-> 1, scrollBarWidth |-> 1,
             capturedMouse |-> FALSE,
             draggingVScrollBar |-> FALSE, draggingHScrollBar |-> FALSE,
             dragOffset |-> 0,
             verticalScrollBarVisible |-> TRUE, horizontalScrollBarVisible |-> FALSE,
             autoCompleteLastClickTime |-> lastClick,
             topLine |-> 0, acActive |-> FALSE, errorStatus |-> "Ok"]

\* ScintillaBase::AutoCompleteStart: the Editor creates the list, fills it,
\* places it below the caret, shows it with the first entry selected, and the
\* list is active from then on.
EditorAutoCompleteStart ==
  /\ pc = "loop"
  /\ \E len \in OverlayLengths, rows \in OverlayRows, spot \in OverlaySpots :
       LET visible == SetVisibleRows(lb, <<TermboxWin(0, 0, 1, 1)>>, rows)
           filled == SetList(visible.l, visible.w[1], OverlayText(len), 44, 58)
           rc == PRectangle(Pos(spot[1]), Pos(spot[2]),
                            Pos(spot[1] + filled.l.width), Pos(spot[2] + filled.l.height))
           w == SetPositionRelative(filled.w, rc, wMain)
       IN /\ lb' = [filled.l EXCEPT !.selection = 0]
          /\ lbWin' = <<w>>
          /\ appended' = [k \in 1..Len(filled.calls) |-> filled.calls[k].s]
          /\ cells' = Select(filled.l, w, 0, 0)
          /\ op' = [name |-> "AutoCompleteStart", len |-> len, rows |-> rows, rc |-> rc]
  /\ ed' = [ed EXCEPT !.acActive = TRUE]
  /\ pc' = "called" /\ ret' = 0
  /\ UNCHANGED <<wMain, sci, surfaceVars>>

\* Presses of the left button and the wheel at two times less than a double
\* click apart and one long after, on every cell left of the scrollbar.
OverlayInputs ==
  [events |-> {SCM_PRESS}, buttons |-> MouseButtons, times |-> {0, 100, 1000},
   ys |-> 0..(OverlayH - 1), xs |-> 0..(OverlayW - 2),
   envs |-> [vpos : {0}, hpos : {0}, grab : {FALSE}, scrollWidth : {2 * OverlayW},
             ub : {0}, junk : {0}]]

\* The widget with an autocompletion list under mouse presses.
NextOverlay ==
  \/ Poll
  \/ EditorAutoCompleteStart
  \/ scintilla_send_mouse(OverlayInputs)

SpecOverlay == InitOverlay /\ [][NextOverlay]_vars

\* ------------------------------------------------------------ claims: Surface
\* The window-relative column and row of a cell written on the widget.
RelX(c) == c.x - wMain.left
RelY(c) == c.y - wMain.top

\* C1: every cell FillRectangle writes has window-relative coordinates with
\* 0 <= x < Width() and 0 <= y < Height(), whatever the rectangle.
C1_FillInsideWindow ==
  op.name = "FillRectangle" =>
    \A c \in cells : /\ 0 <= RelX(c) /\ RelX(c) < Width(wMain)
                     /\ 0 <= RelY(c) /\ RelY(c) < Height(wMain)

\* C2: when rect.left is inside the window and rect.right exceeds Width(),
\* the columns written in each filled row are exactly rect.left .. Width()-1.
C2_Applies ==
  /\ op.name = "FillRectangle"
  /\ 0 <= op.rc.left /\ op.rc.left < Pos(Width(wMain))
  /\ op.rc.right > Pos(Width(wMain))
C2_FillColumns ==
  C2_Applies =>
    \A y \in {c.y : c \in cells} :
      {RelX(c) : c \in {d \in cells : d.y = y}} = ToInt(op.rc.left)..(Width(wMain) - 1)
C2_Witness ==
  /\ C2_Applies /\ cells # {}
  /\ Width(wMain) = MaxW /\ wMain.left = 1 /\ op.rc.left = Pos(MaxW - 2)

\* C3: with rect.left < clip.left, DrawTextNoClip and DrawTextClipped write
\* no cell at a window-relative column less than clip.left.
IsDrawText == op.name \in {"DrawTextNoClip", "DrawTextClipped"}
C3_NothingLeftOfClip ==
  (IsDrawText /\ op.rc.left < clip.left) =>
    \A c \in cells : Pos(RelX(c)) >= clip.left
C3_Witness ==
  /\ op.name = "DrawTextNoClip" /\ op.rc.left < clip.left
  /\ op.cps = <<97, 12354, 97>> /\ clip.left = Pos(1) /\ op.rc.left = Pos(-1)
  /\ cells # {}

\* C4: each code point drawn at column c with display width w has
\* c + w <= Width(), and nothing is drawn when the first code point does
\* not fit.
\* The rectangle DrawTextNoClip receives.
C4_Rect ==
  IF op.name = "DrawTextClipped" /\ op.rc.left >= op.rc.right
  THEN [op.rc EXCEPT !.left = @ - Pos(2)] ELSE op.rc
C4_RightEdge ==
  (IsDrawText /\ op.rc.left >= 0) =>
    /\ \A c \in cells : RelX(c) + CpWidth(c.ch) <= Width(wMain)
    /\ ( /\ C4_Rect.left >= clip.left /\ op.cps # <<>>
         /\ ToInt(C4_Rect.left) + CpWidth(op.cps[1]) > Width(wMain) ) => cells = {}
C4_Witness ==
  /\ op.name = "DrawTextNoClip" /\ op.rc.left = 0 /\ clip.left = 0
  /\ op.cps = <<97, 12354, 97>> /\ Width(wMain) = 3
  /\ {c.ch : c \in cells} = {97, 12354}

WinOK(w) == w.right >= w.left /\ w.bottom >= w.top
C6_WindowInvariant ==
  /\ WinOK(wMain)
  /\ lbWin # <<>> => WinOK(lbWin[1])

\* C7: scintilla_move(new_x, new_y), through TermboxWin::Move, sets left and
\* top to the target and leaves Width() and Height() unchanged.
C7_MoveKeepsSize ==
  [][ (pc = "loop" /\ op'.name = "scintilla_move") =>
        /\ wMain'.left = op'.x /\ wMain'.top = op'.y
        /\ Width(wMain') = Width(wMain) /\ Height(wMain') = Height(wMain) ]_vars
C7_Witness ==
  /\ op.name = "scintilla_move" /\ op.x = 1 /\ op.y = 1
  /\ wMain = TermboxWin(1, 1, MaxW, MaxH)

\* ------------------------------------------------------------ claims: ListBoxImpl
\* C8: Select(n) with height >= 1 and 0 <= n < Length() draws the rows of the
\* list indices s .. s+height-1, where 0 <= s <= n < s+height, and
\* s+height <= Length() when Length() >= height.
C8_Applies ==
  /\ op.name = "Select" /\ lbWin # <<>>
  /\ lb.height >= 1 /\ 0 <= op.n /\ op.n < Len(lb.list)
C8_SelectRows ==
  C8_Applies =>
    LET h == lb.height
        len == Len(lb.list)
        s == SelectStart(op.n, h, len)
        rowOf(c) == c.y - lbWin[1].top
    IN /\ 0 <= s /\ s <= op.n /\ op.n < s + h
       /\ len >= h => s + h <= len
       /\ {rowOf(c) : c \in cells} = 0..(h - 1)
       /\ {rowOf(c) : c \in {d \in cells : d.bg = SelectBack}} = {op.n - s}
       /\ \A k \in 0..(h - 1) :
            s + k < len =>
              ((\E c \in cells : rowOf(c) = k /\ c.ch = 97) <=> appended[s + k + 1] = <<97>>)
C8_Witness ==
  /\ C8_Applies /\ lb.height = 3 /\ Len(lb.list) = 3 /\ op.n = 2
  /\ appended = <<<<97>>, <<>>, <<97>>>>
  /\ \E c \in cells : c.bg = SelectBack /\ c.y = lbWin[1].top + 2

\* C9: after Append(text, type) the list width is
\* max(previous width, displayWidth(text) + 2) with displayWidth in terminal
\* columns, the list window's Width() is that width and its Height() is the
\* number of visible rows.
C9_AppendWidth ==
  op.name = "Append" =>
    /\ lb.width = Max(op.width0, SumWidths(op.cps) + 2)
    /\ Width(lbWin[1]) = lb.width
    /\ Height(lbWin[1]) = lb.height

\* C10: Find(prefix) returns the smallest index whose text past the type
\* character starts with prefix, -1 when there is none, and changes neither
\* the list nor the selection.
IsPrefix(p, t) == Len(p) <= Len(t) /\ SubSeq(t, 1, Len(p)) = p
FirstMatch(texts, p) ==
  LET M == {i \in 1..Len(texts) : IsPrefix(p, texts[i])}
  IN IF M = {} THEN -1 ELSE (CHOOSE i \in M : \A j \in M : i <= j) - 1
C10_FindFirstMatch ==
  [][ (pc = "loop" /\ op'.name = "Find") =>
        /\ ret' = FirstMatch(appended, op'.prefix)
        /\ lb' = lb ]_vars
C10_Witness ==
  /\ op.name = "Find" /\ op.prefix = <<97>> /\ ret = 1
  /\ lb.list = <<<<32, 227, 129, 130>>, Square \o <<97, 98>>, <<32, 97>>>>

\* C11: after Append(text, type) as the k-th entry, GetValue(k) returns
\* exactly text, for a type in or out of [0, IMAGE_MAX] and a one-byte or a
\* multi-byte glyph registered for the type.
C11_GetValueRoundTrip ==
  op.name = "GetValue" => ret = appended[op.n + 1]
C11_Witness ==
  /\ op.name = "GetValue" /\ op.n = 1 /\ ret = <<97, 98>>
  /\ lb.list = <<<<32, 97>>, Square \o <<97, 98>>>>

\* The code points of a well-formed UTF-8 byte string.
RECURSIVE Decode(_)
Decode(bytes) ==
  IF bytes = <<>> THEN <<>>
  ELSE LET d == utf8_char_to_unicode(bytes, 1)
       IN <<d.uni>> \o Decode(SubSeq(bytes, d.len + 1, Len(bytes)))
\* The columns at which a row shows the code points cps from column x on.
RECURSIVE Shown(_, _)
Shown(cps, x) ==
  IF cps = <<>> THEN {} ELSE {<<x, Head(cps)>>} \cup Shown(Tail(cps), x + CpWidth(Head(cps)))

\* C12: when Select repaints a visible entry, its row shows the entry's type
\* glyph in the first column, followed by the entry text.
C12_RowShowsGlyphAndText ==
  (op.name = "Select" /\ lbWin # <<>>) =>
    LET s == SelectStart(op.n, lb.height, Len(lb.list))
    IN \A i \in s..(s + lb.height - 1) :
         i < Len(lb.list) =>
           LET item == lb.list[i + 1]
               text == appended[i + 1]
               glyph == SubSeq(item, 1, Len(item) - Len(text))
               row == {<<c.x - lbWin[1].left, c.ch>> :
                         c \in {d \in cells : d.y = lbWin[1].top + i - s}}
           IN Shown(Decode(glyph), 0) \cup Shown(Decode(text), 1) \subseteq row

\* C13: SetList(listText, separator, typesep) discards the previous entries
\* and makes one entry per separator-separated item, in order, with the text
\* before typesep and the type the integer after it (no type without typesep).
\* The positions of b in text, in increasing order.
PositionsOf(text, b) ==
  LET S == {i \in 1..Len(text) : text[i] = b}
  IN CHOOSE q \in [1..Cardinality(S) -> S] : \A i, j \in 1..Cardinality(S) : i < j => q[i] < q[j]
ItemsOf(text, separator) ==
  LET q == <<0>> \o PositionsOf(text, separator) \o <<Len(text) + 1>>
  IN [k \in 1..(Len(q) - 1) |-> SubSeq(text, q[k] + 1, q[k + 1] - 1)]
RECURSIVE Number(_)
Number(digits) ==
  IF digits = <<>> THEN 0
  ELSE 10 * Number(SubSeq(digits, 1, Len(digits) - 1)) + (digits[Len(digits)] - 48)
\* An item is text, or text, typesep and a decimal number.
ItemWellFormed(item, typesep) ==
  LET q == PositionsOf(item, typesep)
  IN \/ Len(q) = 0
     \/ /\ Len(q) = 1 /\ q[1] < Len(item)
        /\ \A i \in (q[1] + 1)..Len(item) : item[i] >= 48 /\ item[i] <= 57
ItemEntry(item, typesep) ==
  LET q == PositionsOf(item, typesep)
  IN IF Len(q) = 0 THEN [s |-> item, type |-> -1]
     ELSE [s |-> SubSeq(item, 1, q[1] - 1),
           type |-> Number(SubSeq(item, q[1] + 1, Len(item)))]
C13_Applies ==
  /\ op.name = "SetList"
  /\ \A k \in DOMAIN ItemsOf(op.listText, op.separator) :
       ItemWellFormed(ItemsOf(op.listText, op.separator)[k], op.typesep)
C13_SetListEntries ==
  C13_Applies =>
    LET items == ItemsOf(op.listText, op.separator)
        entry(k) == ItemEntry(items[k], op.typesep)
        glyph(t) == IF t >= 0 /\ t <= IMAGE_MAX THEN lb.types[t] ELSE <<32>>
    IN /\ op.calls = [k \in 1..Len(items) |-> entry(k)]
       /\ lb.list = [k \in 1..Len(items) |-> glyph(entry(k).type) \o entry(k).s]
C13_Witness ==
  /\ op.name = "SetList" /\ op.listText = <<65, 58, 49, 44, 66, 58, 50>>
  /\ op.calls = <<[s |-> <<65>>, type |-> 1], [s |-> <<66>>, type |-> 2]>>
  /\ lb.list = <<Star \o <<65>>, <<32, 66>>>>

\* ------------------------------------------------------------ claims: ScintillaTermbox
\* C14: after every ModifyScrollBars call, 1 <= scrollBarHeight <= Height()
\* and 1 <= scrollBarWidth <= Width() of the main window.
C14_ThumbLengths ==
  op.name = "ModifyScrollBars" =>
    /\ 1 <= ed.scrollBarHeight /\ ed.scrollBarHeight <= Height(wMain)
    /\ 1 <= ed.scrollBarWidth /\ ed.scrollBarWidth <= Width(wMain)

IsMouse == op.name = "scintilla_send_mouse"
Dispatched == IsMouse /\ op.calls # <<>>
\* The handler called the Editor with this record.
Called(c) == \E i \in 2..Len(op.calls) : op.calls[i] = c
CalledName(name) == \E i \in 2..Len(op.calls) : op.calls[i].call = name

\* C15: with no overlay active, a wheel press scrolls the view to
\* topLine + max(Height()/4, 1) (button 5) or topLine - max(Height()/4, 1)
\* (button 4), Height() the main window's, at every window size and position.
C15_WheelByHeight ==
  (IsMouse /\ op.event = SCM_PRESS /\ op.button \in {4, 5} /\ ~op.before.acActive) =>
    LET lines == WheelLinesByHeight(op.win)
        by == IF op.button = 4 THEN -lines ELSE lines
    IN /\ ret = 1
       /\ Called([call |-> "ScrollTo", line |-> op.before.topLine + by])

\* C16: scintilla_send_mouse returns false without dispatching for every event
\* outside [left, right] x [top, bottom] of the main window that is neither a
\* wheel event nor a drag event, and hands events inside the window to the
\* handler at (x - left, y - top), at every window position.
C16_RejectsOutside ==
  IsMouse =>
    LET w == op.win
        outside == op.x < w.left \/ op.x > w.right \/ op.y < w.top \/ op.y > w.bottom
    IN /\ (outside /\ op.button \notin {4, 5} /\ op.event # SCM_DRAG) =>
            (ret = 0 /\ op.calls = <<>>)
       /\ (~outside /\ op.event \in {SCM_PRESS, SCM_DRAG, SCM_RELEASE}) =>
            (/\ op.calls # <<>>
             /\ op.calls[1].x = op.x - w.left
             /\ op.calls[1].y = op.y - w.top)

\* C17: MouseRelease ends an active scrollbar drag (both flags false) without
\* calling the Editor's button-up handler; with no drag active it calls the
\* button-up handler if and only if the mouse is captured.
C17_MouseRelease ==
  (Dispatched /\ op.event = SCM_RELEASE) =>
    IF op.before.draggingVScrollBar \/ op.before.draggingHScrollBar
    THEN /\ ~ed.draggingVScrollBar /\ ~ed.draggingHScrollBar
         /\ ~CalledName("ButtonUp")
         /\ ed.capturedMouse = op.before.capturedMouse
    ELSE CalledName("ButtonUp") <=> op.before.capturedMouse
\* A release that ends a drag while the mouse is captured.
C17_Witness ==
  /\ Dispatched /\ op.event = SCM_RELEASE
  /\ op.before.draggingVScrollBar /\ op.before.capturedMouse
  /\ ~ed.draggingVScrollBar /\ ed.capturedMouse


\* ------------------------------------------------------------ claims: Window
\* C19: when rc is no wider and no taller than the parent, the window that
\* SetPositionRelative(rc, parent) moves lies inside the parent:
\* parent.left <= x, x + sizex <= parent.left + Width(), parent.top <= y and
\* y + sizey <= parent.top + Height(), at every parent position and size.
C19_InsideParent ==
  (op.name = "SetPositionRelative"
     /\ op.rc.right - op.rc.left <= Pos(Width(op.parent))
     /\ op.rc.bottom - op.rc.top <= Pos(Height(op.parent))) =>
    LET x == lbWin[1].left
        y == lbWin[1].top
        sizex == ToInt(op.rc.right - op.rc.left)
        sizey == ToInt(op.rc.bottom - op.rc.top)
    IN /\ op.parent.left <= x
       /\ x + sizex <= op.parent.left + Width(op.parent)
       /\ op.parent.top <= y
       /\ y + sizey <= op.parent.top + Height(op.parent)

\* ------------------------------------------------------------ claims: clipped text
\* The column, counted from rc.left, where the i-th code point of cps starts.
StartColumn(cps, i) == SumWidths(SubSeq(cps, 1, i - 1))
\* The columns of the text that lie left of the clip's edge.
HiddenColumns == ToInt(clip.left - op.rc.left)
\* The code points of the text the clip's edge cuts through.
Straddlers ==
  {i \in 1..Len(op.cps) :
     /\ StartColumn(op.cps, i) < HiddenColumns
     /\ StartColumn(op.cps, i) + CpWidth(op.cps[i]) > HiddenColumns}
\* The code points that start at or right of the clip's edge.
Visible == {i \in 1..Len(op.cps) : StartColumn(op.cps, i) >= HiddenColumns}
\* C20: in DrawText with rect.left < clip.left, a code point whose columns
\* straddle the clip's left edge is dropped: the first cell drawn holds the
\* first code point that starts at or after the edge, and nothing is drawn
\* when there is none.
C20_StraddlerDropped ==
  (op.name = "DrawTextNoClip" /\ op.rc.left < clip.left /\ Straddlers # {}) =>
    \A c \in cells :
      (\A d \in cells : c.x <= d.x) =>
        /\ Visible # {}
        /\ c.ch = op.cps[CHOOSE i \in Visible : \A j \in Visible : i <= j]

\* ------------------------------------------------------------ claims: scrollbars
\* C22: with the vertical scrollbar visible and no overlay active, a button-1
\* press at the window-relative last column x = Width() - 1 is a scrollbar
\* hit at every window position: it pages up above the thumb, pages down
\* below it, starts a drag with dragOffset = y - thumb position on it, and is
\* never forwarded to the Editor's button-down handler.
C22_LastColumnIsScrollbar ==
  (Dispatched /\ op.event = SCM_PRESS /\ op.button = 1
     /\ ~op.before.acActive /\ op.before.verticalScrollBarVisible
     /\ op.x - op.win.left = Width(op.win) - 1) =>
    LET y == op.y - op.win.top
        page == LinesOnScreen(op.win)
    IN /\ ~CalledName("ButtonDown")
       /\ IF y < op.vpos
          THEN Called([call |-> "ScrollTo", line |-> op.before.topLine - page])
          ELSE IF y >= op.vpos + op.before.scrollBarHeight
          THEN Called([call |-> "ScrollTo", line |-> op.before.topLine + page])
          ELSE ed.draggingVScrollBar /\ ed.dragOffset = y - op.vpos

\* C23: while a scrollbar drag is active every mouse move is consumed
\* (handled, no button-move call) and a scroll it requests targets a line in
\* [0, MaxScrollPos], for every thumb length and window size; with no drag
\* active the move goes to the Editor's button-move handler.
C23_DragMoves ==
  (Dispatched /\ op.event = SCM_DRAG) =>
    IF op.before.draggingVScrollBar \/ op.before.draggingHScrollBar
    THEN /\ ret = 1
         /\ ~CalledName("ButtonMove")
         /\ \A i \in 2..Len(op.calls) :
              op.calls[i].call = "ScrollTo" => op.calls[i].line \in 0..MaxScrollPos
    ELSE CalledName("ButtonMove")

\* C27: every SCM_RELEASE sent through scintilla_send_mouse, at any absolute
\* coordinates, leaves neither draggingVScrollBar nor draggingHScrollBar set.
C27_ReleaseEndsDrag ==
  (IsMouse /\ op.event = SCM_RELEASE) =>
    ~ed.draggingVScrollBar /\ ~ed.draggingHScrollBar

\* The thumb length ModifyScrollBars(MaxScrollPos + LinesOnScreen - 1,
\* LinesOnScreen) sets on the main window as it is.
ThumbLengthSet ==
  ModifyScrollBars(ed, wMain, MaxScrollPos + LinesOnScreen(wMain) - 1,
                   LinesOnScreen(wMain), 1, 0, TRUE).scrollBarHeight
\* C29: on a window of at least one cell, with the thumb length set by
\* ModifyScrollBars(MaxScrollPos + LinesOnScreen - 1, LinesOnScreen), for
\* every topLine in [0, MaxScrollPos] the position SetVerticalScrollPos
\* computes has 0 <= scrollBarVPos and scrollBarVPos + scrollBarHeight <=
\* Height(), and no thumb cell is written below the window's last row.
C29_ThumbInsideTrack ==
  (op.name = "ScrollTo" /\ op.drawn
     /\ Height(wMain) >= 1 /\ Width(wMain) >= 1
     /\ ed.scrollBarHeight = ThumbLengthSet) =>
    /\ 0 <= ret
    /\ ret + ed.scrollBarHeight <= Height(wMain)
    /\ \A c \in cells : 0 <= RelY(c) /\ RelY(c) < Height(wMain)

\* ------------------------------------------------------------ claims: the list overlay
\* A press sent while the list is shown.
OverPress == Dispatched /\ op.event = SCM_PRESS /\ op.before.acActive /\ lbWin # <<>>
\* The row and column of the press counted from the list window's first cell.
ListRow == op.y - lbWin[1].top
ListColumn == op.x - lbWin[1].left
\* The press is on a cell of the list window.
OnList ==
  /\ 0 <= ListRow /\ ListRow < Height(lbWin[1])
  /\ 0 <= ListColumn /\ ListColumn < Width(lbWin[1])
\* What MousePress takes for the list's interior and for its border.
InInterior ==
  LET ry == (op.y - op.win.top) - (lbWin[1].top - op.win.top)
      rx == (op.x - op.win.left) - (lbWin[1].left - op.win.left)
  IN ry > 0 /\ ry < lbWin[1].bottom - 1 /\ rx > 0 /\ rx < lbWin[1].right - 1
OnBorderLine ==
  LET ry == (op.y - op.win.top) - (lbWin[1].top - op.win.top)
      rx == (op.x - op.win.left) - (lbWin[1].left - op.win.left)
  IN ~InInterior
     /\ (ry = 0 \/ ry = lbWin[1].bottom - 1 \/ rx = 0 \/ rx = lbWin[1].right - 1)
\* The view was scrolled and the list left alone.
ScrolledOnly == CalledName("ScrollTo") /\ ~CalledName("Select") /\ lb.selection = op.selection

\* C21 as stated: a wheel press always scrolls the main view and never
\* changes the list selection, also over an active list's interior or border.
C21_WheelBypassesAll ==
  (Dispatched /\ op.event = SCM_PRESS /\ op.button \in {4, 5}) => ScrolledOnly
\* C21: a wheel press is always handled.  With no list active, or away from
\* what MousePress takes for the active list's interior and border, it scrolls
\* the main view and leaves the selection alone.  In the interior it does not
\* scroll the view: button 4 selects the entry before the selected one unless
\* that is the first, button 5 the one after it unless that is the last.  On
\* the border it does nothing.
C21_WheelOverList ==
  (Dispatched /\ op.event = SCM_PRESS /\ op.button \in {4, 5}) =>
    /\ ret = 1
    /\ IF op.before.acActive /\ lbWin # <<>> /\ InInterior
       THEN /\ ~CalledName("ScrollTo")
            /\ IF op.button = 4 /\ op.selection > 0
               THEN Called([call |-> "Select", n |-> op.selection - 1])
                    /\ lb.selection = op.selection - 1
               ELSE IF op.button = 5 /\ op.selection < Len(lb.list) - 1
               THEN Called([call |-> "Select", n |-> op.selection + 1])
                    /\ lb.selection = op.selection + 1
               ELSE Len(op.calls) = 1 /\ lb.selection = op.selection
       ELSE IF op.before.acActive /\ lbWin # <<>> /\ OnBorderLine
       THEN Len(op.calls) = 1 /\ lb.selection = op.selection
       ELSE ScrolledOnly
\* A wheel-down press inside the list that moves the selection to the second
\* entry.
C21_Witness ==
  /\ OverPress /\ op.button = 5 /\ InInterior /\ OnList
  /\ op.selection = 0 /\ lb.selection = 1
  /\ cells # {}

\* C26: with a list active, a button-1 press in the list interior on the row
\* of the selected entry less than DoubleClickTime after the previous list
\* click delivers doubleClick and leaves the selection unchanged; any other
\* interior button-1 press on a row that shows an entry selects that entry;
\* either way the last-click time becomes the event's time and the press is
\* handled.
C26_ListClick ==
  (OverPress /\ op.button = 1 /\ InInterior /\ OnList) =>
    LET s == SelectStart(op.selection, lb.height, Len(lb.list))
        clicked == s + ListRow
    IN clicked < Len(lb.list) =>
         /\ ret = 1
         /\ ed.autoCompleteLastClickTime = op.time
         /\ IF clicked = op.selection
               /\ UnsignedLess(op.time - op.before.autoCompleteLastClickTime, DoubleClickTime)
            THEN /\ Called([call |-> "ListNotify", event |-> "doubleClick"])
                 /\ lb.selection = op.selection
            ELSE /\ Called([call |-> "Select", n |-> clicked])
                 /\ lb.selection = clicked

\* C28: every index MousePress passes to the list's Select on a press inside
\* the list lies in [0, Length()).
C28_SelectInRange ==
  (OverPress /\ OnList) =>
    \A i \in 2..Len(op.calls) :
      op.calls[i].call = "Select" => (0 <= op.calls[i].n /\ op.calls[i].n < Len(lb.list))

\* C30: with a list active, a button-1 press on a cell outside the list's
\* rectangle is handled as if no list were active: the same calls as the
\* scrollbar hit-test and the button-down handler make, and the list is left
\* alone.
C30_OutsideNotSwallowed ==
  (OverPress /\ op.button = 1 /\ ~OnList) =>
    LET plain == MousePressView(op.before, lb, op.win, op.button, op.time,
                                op.y - op.win.top, op.x - op.win.left,
                                [vpos |-> op.vpos, hpos |-> 0, grab |-> FALSE],
                                WheelLines(op.win))
    IN /\ Tail(op.calls) = plain.calls
       /\ ret = (IF plain.ret THEN 1 ELSE 0)
       /\ lb.selection = op.selection


\* ------------------------------------------------------------ claims: transparent text
\* The device cell DrawTextTransparent's rectangle starts at.
SampleX == wMain.left + ToInt(op.rc.left)
SampleY == wMain.top + ToInt(op.rc.top)
SampleOnDevice == SampleX \in 0..(tb_width - 1) /\ SampleY \in 0..(tb_height - 1)
\* C25: DrawTextTransparent reads the cell buffer at most once, at the cell
\* (window.left + rect.left, window.top + rect.top), and every cell it writes
\* carries the background that cell held before the call.
C25_SampledBackground ==
  op.name = "DrawTextTransparent" =>
    /\ op.read # {} => SampleOnDevice /\ op.read = {SampleY * tb_width + SampleX}
    /\ \A c \in cells :
         SampleOnDevice /\ c.bg = op.device[SampleY * tb_width + SampleX]
\* The same for the calls whose rectangle starts on a cell of the terminal.
C25_SampledOnDevice ==
  (op.name = "DrawTextTransparent" /\ SampleOnDevice) =>
    /\ op.read \subseteq {SampleY * tb_width + SampleX}
    /\ \A c \in cells : c.bg = op.device[SampleY * tb_width + SampleX]


\* ------------------------------------------------------------ claims: line markers
IsMarker == op.name = "DrawLineMarker"
\* The glyphs DrawLineMarker's table holds for the marker type drawn.
MarkerGlyphs == {g[2] : g \in {h \in LineMarkerGlyphs(op.plat) : h[1] = op.marker.markType}}
\* C24: DrawLineMarker dispatches on markType.  A type of the glyph table
\* writes exactly one cell, at (window.left + rc.left, window.top + rc.top),
\* with the type's glyph and the marker's colours; FullRect writes what
\* FillRectangle writes with the marker's back colour; a type at or above
\* Character writes what DrawTextClipped writes for the one character
\* markType - Character; every other value writes no cell.
C24_MarkerDispatch ==
  IsMarker =>
    LET mt == op.marker.markType
    IN /\ MarkerGlyphs # {} =>
            /\ Cardinality(cells) = 1
            /\ \A c \in cells :
                 /\ c.x = ToInt(Pos(wMain.left) + op.rc.left)
                 /\ c.y = ToInt(Pos(wMain.top) + op.rc.top)
                 /\ MarkerGlyphs = {c.ch}
                 /\ c.fg = to_rgb(op.marker.fore) /\ c.bg = to_rgb(op.marker.back)
       /\ mt = MarkerSymbol.FullRect =>
            cells = FillRectangle(wMain, op.rc, op.marker.back)
       /\ mt >= MarkerSymbol.Character =>
            cells = DrawTextClipped(wMain, clip, op.rc, <<mt - MarkerSymbol.Character>>,
                                    op.marker.fore, op.marker.back)
       /\ (MarkerGlyphs = {} /\ mt # MarkerSymbol.FullRect /\ mt < MarkerSymbol.Character) =>
            cells = {} /\ ret = 0
\* A box-plus fold marker drawn on a window away from the terminal's origin.
C24_Witness ==
  /\ IsMarker /\ op.marker.markType = MarkerSymbol.BoxPlus
  /\ wMain.left = 1 /\ wMain.top = 1 /\ op.rc.left = Pos(1)
  /\ \E c \in cells : c.ch = 8862 /\ c.x = 2 /\ c.y = 1
====
